---- MODULE Spec2Model ----
(***************************************************************************)
(* Relationship/tagging engine of the GTD plugin (src/unnamed/part_000,    *)
(* the plugin object that starts at line 904).  The host's tag store is    *)
(* the only persisted state.  A tag is the sequence of its '/'-separated   *)
(* segments ("r/parent/20250726141507-1" is <<"r", "parent",               *)
(* "20250726141507-1">>), so that startsWith, split and the template       *)
(* strings of the code are computed on segments.                           *)
(***************************************************************************)
EXTENDS Integers, Sequences, FiniteSets, TLC

VARIABLES
  tags,       \* host tag store: note uuid -> set of tags
  rev,        \* host listing policy: the order in which the host lists a tag set
  note,       \* the note handle a caller holds (setNoteTags' `note`): uuid + tag list as loaded
  relations,  \* currentRelations computed for the held handle (getReadableRelationships)
  last,       \* the last operation: its arguments, the types it computed and its outcome
  budget,     \* number of host tag mutations that may still report failure (return false)
  steps,      \* number of relationship operations (set, add, remove) run so far
  query,      \* the last getFilteredNotes call: base tag, domain filter, result
  walk,       \* the buildNestedProjectList call in progress or returned last, and the call
              \* before it when that one had the same arguments
  pass,       \* the footnote renumbering done so far: counter, fragments, sections written
  dialog,     \* the setNoteTags dialog: the prompt that is open, the answers given so far
  calls       \* the getNoteIdTag invocations in flight: each one's note, place and candidate

vars == <<tags, rev, note, relations, last, budget, steps, query, walk, pass, dialog, calls>>

\* ------------------------------------------------------------------ bounds
\* relationship operations (set, add, remove) per behaviour
MaxSteps == 3
\* host tag mutations that report failure per behaviour, where the host may fail
MaxFailures == 1
\* footnote marks in one content fragment
MaxTokens == 2
\* content fragments (task lines) in one section
MaxFragments == 2
\* sections written in one pass over a note
MaxSections == 2
\* relationship operations per behaviour while the host may refuse writes
MaxHostSteps == 2

\* ------------------------------------------------------------- the host's notes
\* The notes of the host are the domain of the tag store.
\* note.created as the fields the regex of generateUniqueNoteIdTag captures
\* (year, month, day, hour, minute, second) and the rest of the ISO string.
\* n1, n2 and n3 are created within the same second.
Created ==
  [n1 |-> <<"2025", "07", "26", "14", "15", "07", ".120Z">>,
   n2 |-> <<"2025", "07", "26", "14", "15", "07", ".870Z">>,
   n3 |-> <<"2025", "07", "26", "14", "15", "07", ".990Z">>,
   n4 |-> <<"2025", "07", "26", "14", "15", "08", ".000Z">>]

\* JS undefined / null
Undefined == <<>>
Null == <<>>
NoNote == [uuid |-> "", tags |-> <<>>]

\* ------------------------------------------------------------ string helpers
\* t.startsWith(prefix + '/') on segments: the segments of the prefix followed by a '/'
StartsWith(t, prefix) ==
  /\ Len(t) > Len(prefix)
  /\ SubSeq(t, 1, Len(prefix)) = prefix

\* t.endsWith('/' + seg)
EndsWith(t, seg) == Len(t) >= 2 /\ t[Len(t)] = seg

\* t.split('/')[i] (0-based i)
Split(t, i) == IF i + 1 <= Len(t) THEN t[i + 1] ELSE "undefined"

\* Array.prototype.find: the first element satisfying P, or undefined
\* (matching: the elements of the array that satisfy P, in order)
Find(matching) == IF matching = <<>> THEN Undefined ELSE matching[1]

RECURSIVE Ascending(_)
Ascending(S) ==
  IF S = {} THEN <<>>
  ELSE LET x == CHOOSE y \in S : TRUE IN <<x>> \o Ascending(S \ {x})

Reverse(s) == [i \in 1..Len(s) |-> s[Len(s) + 1 - i]]

\* The order in which the host lists a set (of tags, of notes): one fixed
\* order or its reverse, by the host's policy.
Listing(S, r) == IF r THEN Reverse(Ascending(S)) ELSE Ascending(S)

Range(s) == {s[i] : i \in 1..Len(s)}

\* ------------------------------------------------------------------ the host
\* app.notes.find(uuid) / app.findNote({uuid}): a handle with the tags as listed now
NotesFind(store, uuid, r) == [uuid |-> uuid, tags |-> Listing(store[uuid], r)]

\* a note tag matches a query tag when it is that tag or a sub-tag of it
TagMatches(t, q) == Len(q) <= Len(t) /\ SubSeq(t, 1, Len(q)) = q

\* app.filterNotes({tag: "a,b,^c"}): the notes that carry every required tag and
\* no excluded one, as a list in the host's order
FilterNotes(store, required, excluded, r) ==
  Listing({n \in DOMAIN store :
             /\ \A q \in required : \E t \in store[n] : TagMatches(t, q)
             /\ \A q \in excluded : ~\E t \in store[n] : TagMatches(t, q)}, r)

\* note.addTag(tag) -> boolean; ok is what the host answers
AddTag(store, uuid, tag, ok) ==
  IF ok THEN [store EXCEPT ![uuid] = @ \cup {tag}] ELSE store

\* note.removeTag(tag) -> boolean
RemoveTag(store, uuid, tag, ok) ==
  IF ok THEN [store EXCEPT ![uuid] = @ \ {tag}] ELSE store

\* ------------------------------------------------------------ getNoteType
Subtypes == {"people", "software", "vendor", "horizon"}

IsTypeTag(t) ==
  \/ StartsWith(t, <<"list">>)
  \/ StartsWith(t, <<"project">>)
  \/ StartsWith(t, <<"reference">>)
  \/ (Len(t) = 1 /\ t[1] \in Subtypes)

\* the note type as the segments of the returned string (null: Null)
getNoteType(n) ==
  LET tag == Find(SelectSeq(n.tags, IsTypeTag))
  IN  IF tag = Undefined THEN Null
      ELSE IF StartsWith(tag, <<"project">>) THEN <<"project">>
      ELSE IF StartsWith(tag, <<"reference">>) /\ Split(tag, 1) \in Subtypes
           THEN <<Split(tag, 1)>>
      ELSE tag

\* `${type}` inside a template string
TypeText(type) == IF type = Null THEN <<"null">> ELSE type

\* ------------------------------------------------------------ note ids
IsNoteIdTag(t) == StartsWith(t, <<"note-id">>)
IsParentTag(t) == StartsWith(t, <<"r", "parent">>)
IsChildTag(t) == StartsWith(t, <<"r", "child">>)
IsDomainTag(t) == StartsWith(t, <<"d">>)

NoteIdTags(store, n) == {t \in store[n] : IsNoteIdTag(t)}

\* variants of the collision loop: no collision check; the note's own tag counted
\* as a collision
UniqueLoopNoCheck(store, uuid, baseId, candidate, counter) == candidate

RECURSIVE UniqueLoopCountsSelf(_, _, _, _, _)
UniqueLoopCountsSelf(store, uuid, baseId, candidate, counter) ==
  IF Len(FilterNotes(store, {candidate}, {}, FALSE)) > 0
  THEN UniqueLoopCountsSelf(store, uuid, baseId,
                            <<"note-id", baseId \o "-" \o ToString(counter)>>, counter + 1)
  ELSE candidate

\* the while loop of generateUniqueNoteIdTag
RECURSIVE UniqueLoop(_, _, _, _, _)
UniqueLoop(store, uuid, baseId, candidate, counter) ==
  IF \E n \in Range(FilterNotes(store, {candidate}, {}, FALSE)) : n # uuid
  THEN UniqueLoop(store, uuid, baseId,
                  <<"note-id", baseId \o "-" \o ToString(counter)>>, counter + 1)
  ELSE candidate


\* the new note-id tag, or Undefined when note.created does not match (throws)
generateUniqueNoteIdTag(store, uuid) ==
  LET c == Created[uuid]
  IN  IF Len(c) < 6 THEN Undefined
      ELSE LET baseId == c[1] \o c[2] \o c[3] \o c[4] \o c[5] \o c[6]
           IN  UniqueLoop(store, uuid, baseId, <<"note-id", baseId>>, 1)

\* variant: a refused addTag is not looked at, the tag is returned all the same
getNoteIdTagUnchecked(store, h, ok) ==
  LET existing == Find(SelectSeq(h.tags, IsNoteIdTag))
      tag == generateUniqueNoteIdTag(store, h.uuid)
  IN  IF existing # Undefined
        THEN [tags |-> store, ret |-> existing, out |-> "ok", wrote |-> FALSE, hostOk |-> TRUE]
      ELSE IF tag = Undefined
        THEN [tags |-> store, ret |-> Undefined, out |-> "throw", wrote |-> FALSE, hostOk |-> TRUE]
      ELSE [tags |-> AddTag(store, h.uuid, tag, ok), ret |-> tag, out |-> "ok",
            wrote |-> TRUE, hostOk |-> ok]

\* getNoteIdTag(app, handle): [tags: the store afterwards, ret: the tag,
\* out: "ok" | "throw", wrote: addTag was called, hostOk: no host call failed]
getNoteIdTag(store, h, ok) ==
  LET existing == Find(SelectSeq(h.tags, IsNoteIdTag))
      tag == generateUniqueNoteIdTag(store, h.uuid)
  IN  IF existing # Undefined
        THEN [tags |-> store, ret |-> existing, out |-> "ok", wrote |-> FALSE, hostOk |-> TRUE]
      ELSE IF tag = Undefined
        THEN [tags |-> store, ret |-> Undefined, out |-> "throw", wrote |-> FALSE, hostOk |-> TRUE]
      ELSE IF ~ok
        THEN [tags |-> store, ret |-> Undefined, out |-> "throw", wrote |-> TRUE, hostOk |-> FALSE]
      ELSE [tags |-> AddTag(store, h.uuid, tag, ok), ret |-> tag, out |-> "ok",
            wrote |-> TRUE, hostOk |-> TRUE]

\* ------------------------------------------------- parent / child lookup
\* the notes that own note-id/<id>, for each id of the list, first match only
ResolveIds(store, ids, r) ==
  LET matches == [i \in 1..Len(ids) |-> FilterNotes(store, {<<"note-id", ids[i]>>}, {}, r)]
      hits == SelectSeq(matches, LAMBDA m : Len(m) > 0)
  IN  [i \in 1..Len(hits) |-> hits[i][1]]

\* getParentNotes(app, noteUUID): the uuids of the parents, in tag order
getParentNotes(store, noteUUID, r) ==
  LET n == NotesFind(store, noteUUID, r)
      parentTags == SelectSeq(n.tags, IsParentTag)
      parentIds == [i \in 1..Len(parentTags) |-> Split(parentTags[i], 2)]
  IN  ResolveIds(store, parentIds, r)

\* getChildNotes(app, noteUUID)
getChildNotes(store, noteUUID, r) ==
  LET n == NotesFind(store, noteUUID, r)
      childTags == SelectSeq(n.tags, IsChildTag)
      childIds == [i \in 1..Len(childTags) |-> Split(childTags[i], 2)]
  IN  ResolveIds(store, childIds, r)

\* ------------------------------------------------ setParentChildRelationship
Result(store, out, ta, tb, hostOk, minted) ==
  [tags |-> store, out |-> out, ta |-> ta, tb |-> tb, hostOk |-> hostOk, minted |-> minted]

setParentChildRelationshipSwapped(store, childUUID, parentUUID, r, oks) ==
  LET child == NotesFind(store, childUUID, r)
      parent == NotesFind(store, parentUUID, r)
      childType == getNoteType(child)
      parentType == getNoteType(parent)
      g1 == getNoteIdTag(store, child, oks[1])
      g2 == getNoteIdTag(g1.tags, parent, oks[2])
      s3 == AddTag(g2.tags, childUUID, <<"r", "parent", Split(g1.ret, 1)>>, oks[3])
      s4 == AddTag(s3, parentUUID, <<"r", "child", Split(g2.ret, 1)>>, oks[4])
  IN  IF childType # parentType
        THEN Result(store, "alert", childType, parentType, TRUE, FALSE)
      ELSE IF g1.out = "throw"
        THEN Result(g1.tags, "throw", childType, parentType, g1.hostOk, g1.wrote)
      ELSE IF g2.out = "throw"
        THEN Result(g2.tags, "throw", childType, parentType, g2.hostOk, g1.wrote \/ g2.wrote)
      ELSE Result(s4, "ok", childType, parentType, oks[3] /\ oks[4], g1.wrote \/ g2.wrote)

setParentChildRelationshipNoTypeCheck(store, childUUID, parentUUID, r, oks) ==
  LET child == NotesFind(store, childUUID, r)
      parent == NotesFind(store, parentUUID, r)
      childType == getNoteType(child)
      parentType == getNoteType(parent)
      g1 == getNoteIdTag(store, child, oks[1])
      g2 == getNoteIdTag(g1.tags, parent, oks[2])
      s3 == AddTag(g2.tags, childUUID, <<"r", "parent", Split(g2.ret, 1)>>, oks[3])
      s4 == AddTag(s3, parentUUID, <<"r", "child", Split(g1.ret, 1)>>, oks[4])
  IN  IF childType # parentType
        THEN Result(s4, "alert", childType, parentType, TRUE, FALSE)
      ELSE IF g1.out = "throw"
        THEN Result(g1.tags, "throw", childType, parentType, g1.hostOk, g1.wrote)
      ELSE IF g2.out = "throw"
        THEN Result(g2.tags, "throw", childType, parentType, g2.hostOk, g1.wrote \/ g2.wrote)
      ELSE Result(s4, "ok", childType, parentType, oks[3] /\ oks[4], g1.wrote \/ g2.wrote)

\* oks[1], oks[2]: the host's answers to the two note-id writes; oks[3], oks[4]: to
\* the r/parent and the r/child write
setParentChildRelationship(store, childUUID, parentUUID, r, oks) ==
  LET child == NotesFind(store, childUUID, r)
      parent == NotesFind(store, parentUUID, r)
      childType == getNoteType(child)
      parentType == getNoteType(parent)
      g1 == getNoteIdTag(store, child, oks[1])
      childId == Split(g1.ret, 1)
      g2 == getNoteIdTag(g1.tags, parent, oks[2])
      parentId == Split(g2.ret, 1)
      s3 == AddTag(g2.tags, childUUID, <<"r", "parent", parentId>>, oks[3])
      s4 == AddTag(s3, parentUUID, <<"r", "child", childId>>, oks[4])
  IN  IF childType # parentType
        THEN Result(store, "alert", childType, parentType, TRUE, FALSE)
      ELSE IF g1.out = "throw"
        THEN Result(g1.tags, "throw", childType, parentType, g1.hostOk, g1.wrote)
      ELSE IF g2.out = "throw"
        THEN Result(g2.tags, "throw", childType, parentType, g2.hostOk, g1.wrote \/ g2.wrote)
      ELSE Result(s4, "ok", childType, parentType, oks[3] /\ oks[4], g1.wrote \/ g2.wrote)

\* variant: the last branch tags only the note the action was started from
addRelationshipByTypeOneWay(store, h, relatedUUID, r, oks) ==
  LET relatedNote == NotesFind(store, relatedUUID, r)
      noteType == getNoteType(h)
      relatedType == getNoteType(relatedNote)
      g1 == getNoteIdTag(store, h, oks[1])
      g2 == getNoteIdTag(g1.tags, relatedNote, oks[2])
      noteId == Split(g1.ret, 1)
      relatedNoteId == Split(g2.ret, 1)
      onNote == <<"r">> \o TypeText(relatedType) \o <<relatedNoteId>>
      onRelated == <<"r">> \o TypeText(noteType) \o <<noteId>>
      minted == g1.wrote \/ g2.wrote
  IN  IF noteType = Null
        THEN Result(store, "throw", noteType, relatedType, TRUE, FALSE)
      ELSE IF StartsWith(noteType, <<"project">>) /\ relatedType = Null
        THEN Result(store, "throw", noteType, relatedType, TRUE, FALSE)
      ELSE IF StartsWith(noteType, <<"project">>) /\ StartsWith(relatedType, <<"project">>)
        THEN Result(store, "alert", noteType, relatedType, TRUE, FALSE)
      ELSE IF g1.out = "throw"
        THEN Result(g1.tags, "throw", noteType, relatedType, g1.hostOk, g1.wrote)
      ELSE IF g2.out = "throw"
        THEN Result(g2.tags, "throw", noteType, relatedType, g2.hostOk, minted)
      ELSE IF StartsWith(noteType, <<"project">>)
        THEN Result(AddTag(g2.tags, h.uuid, onNote, oks[3]), "ok",
                    noteType, relatedType, oks[3], minted)
      ELSE IF relatedType = Null
        THEN Result(g2.tags, "throw", noteType, relatedType, TRUE, minted)
      ELSE IF StartsWith(relatedType, <<"project">>)
        THEN Result(AddTag(g2.tags, relatedUUID, onRelated, oks[4]), "ok",
                    noteType, relatedType, oks[4], minted)
      ELSE Result(AddTag(g2.tags, h.uuid, onNote, oks[3]),
                  "ok", noteType, relatedType, oks[3] /\ oks[4], minted)

\* ----------------------------------------------------- addRelationshipByType
\* h is the caller's handle of the note, relatedUUID the note picked in the prompt.
\* oks[1], oks[2]: the host's answers to the note-id writes; oks[3], oks[4]: to the
\* r/* writes on the note and on the related note.  A startsWith on a null type
\* is a TypeError ("throw").
addRelationshipByType(store, h, relatedUUID, r, oks) ==
  LET relatedNote == NotesFind(store, relatedUUID, r)
      noteType == getNoteType(h)
      relatedType == getNoteType(relatedNote)
      g1 == getNoteIdTag(store, h, oks[1])
      g2 == getNoteIdTag(g1.tags, relatedNote, oks[2])
      noteId == Split(g1.ret, 1)
      relatedNoteId == Split(g2.ret, 1)
      onNote == <<"r">> \o TypeText(relatedType) \o <<relatedNoteId>>
      onRelated == <<"r">> \o TypeText(noteType) \o <<noteId>>
      minted == g1.wrote \/ g2.wrote
  IN  IF noteType = Null
        THEN Result(store, "throw", noteType, relatedType, TRUE, FALSE)
      ELSE IF StartsWith(noteType, <<"project">>) /\ relatedType = Null
        THEN Result(store, "throw", noteType, relatedType, TRUE, FALSE)
      ELSE IF StartsWith(noteType, <<"project">>) /\ StartsWith(relatedType, <<"project">>)
        THEN Result(store, "alert", noteType, relatedType, TRUE, FALSE)
      ELSE IF g1.out = "throw"
        THEN Result(g1.tags, "throw", noteType, relatedType, g1.hostOk, g1.wrote)
      ELSE IF g2.out = "throw"
        THEN Result(g2.tags, "throw", noteType, relatedType, g2.hostOk, minted)
      ELSE IF StartsWith(noteType, <<"project">>)
        THEN Result(AddTag(g2.tags, h.uuid, onNote, oks[3]), "ok",
                    noteType, relatedType, oks[3], minted)
      ELSE IF relatedType = Null
        THEN Result(g2.tags, "throw", noteType, relatedType, TRUE, minted)
      ELSE IF StartsWith(relatedType, <<"project">>)
        THEN Result(AddTag(g2.tags, relatedUUID, onRelated, oks[4]), "ok",
                    noteType, relatedType, oks[4], minted)
      ELSE Result(AddTag(AddTag(g2.tags, h.uuid, onNote, oks[3]), relatedUUID, onRelated, oks[4]),
                  "ok", noteType, relatedType, oks[3] /\ oks[4], minted)

\* -------------------------------------------------------- removeRelationship
\* variant: only the tag on the note itself is removed
removeRelationshipOneSided(store, h, relation, r, oks) ==
  LET target == NotesFind(store, relation.uuid, r)
      g1 == getNoteIdTag(store, h, oks[1])
      g2 == getNoteIdTag(g1.tags, target, oks[2])
      targetId == Split(g2.ret, 1)
      first ==
        IF relation.type = <<"parent">> THEN <<"r", "parent", targetId>>
        ELSE IF relation.type = <<"child">> THEN <<"r", "child", targetId>>
        ELSE <<"r">> \o TypeText(getNoteType(target)) \o <<targetId>>
  IN  IF g1.out = "throw"
        THEN Result(g1.tags, "throw", Null, Null, g1.hostOk, g1.wrote)
      ELSE IF g2.out = "throw"
        THEN Result(g2.tags, "throw", Null, Null, g2.hostOk, g1.wrote \/ g2.wrote)
      ELSE Result(RemoveTag(g2.tags, h.uuid, first, oks[3]),
                  "ok", Null, Null, oks[3], g1.wrote \/ g2.wrote)

\* variant: every tag of the relation's kind is dropped from the note itself
removeRelationshipWholeKind(store, h, relation, r, oks) ==
  LET target == NotesFind(store, relation.uuid, r)
      g1 == getNoteIdTag(store, h, oks[1])
      g2 == getNoteIdTag(g1.tags, target, oks[2])
      noteId == Split(g1.ret, 1)
      kind == IF relation.type \in {<<"parent">>, <<"child">>}
                THEN <<"r">> \o relation.type
                ELSE <<"r">> \o TypeText(getNoteType(target))
      second ==
        IF relation.type = <<"parent">> THEN <<"r", "child", noteId>>
        ELSE IF relation.type = <<"child">> THEN <<"r", "parent", noteId>>
        ELSE <<"r">> \o TypeText(getNoteType(h)) \o <<noteId>>
      cleared == [g2.tags EXCEPT ![h.uuid] = {t \in @ : ~StartsWith(t, kind)}]
  IN  IF g1.out = "throw"
        THEN Result(g1.tags, "throw", Null, Null, g1.hostOk, g1.wrote)
      ELSE IF g2.out = "throw"
        THEN Result(g2.tags, "throw", Null, Null, g2.hostOk, g1.wrote \/ g2.wrote)
      ELSE Result(RemoveTag(cleared, relation.uuid, second, oks[4]),
                  "ok", Null, Null, oks[3] /\ oks[4], g1.wrote \/ g2.wrote)

\* relation: [type, uuid] as getReadableRelationships lists it
removeRelationship(store, h, relation, r, oks) ==
  LET target == NotesFind(store, relation.uuid, r)
      g1 == getNoteIdTag(store, h, oks[1])
      g2 == getNoteIdTag(g1.tags, target, oks[2])
      noteId == Split(g1.ret, 1)
      targetId == Split(g2.ret, 1)
      minted == g1.wrote \/ g2.wrote
      first ==
        IF relation.type = <<"parent">> THEN <<"r", "parent", targetId>>
        ELSE IF relation.type = <<"child">> THEN <<"r", "child", targetId>>
        ELSE <<"r">> \o TypeText(getNoteType(target)) \o <<targetId>>
      second ==
        IF relation.type = <<"parent">> THEN <<"r", "child", noteId>>
        ELSE IF relation.type = <<"child">> THEN <<"r", "parent", noteId>>
        ELSE <<"r">> \o TypeText(getNoteType(h)) \o <<noteId>>
  IN  IF g1.out = "throw"
        THEN Result(g1.tags, "throw", Null, Null, g1.hostOk, g1.wrote)
      ELSE IF g2.out = "throw"
        THEN Result(g2.tags, "throw", Null, Null, g2.hostOk, minted)
      ELSE Result(RemoveTag(RemoveTag(g2.tags, h.uuid, first, oks[3]),
                            relation.uuid, second, oks[4]),
                  "ok", Null, Null, oks[3] /\ oks[4], minted)

\* -------------------------------------------------- getReadableRelationships
IsDirectRTag(t) == StartsWith(t, <<"r">>) /\ ~IsParentTag(t) /\ ~IsChildTag(t)

Uuids(results) == {results[k].uuid : k \in 1..Len(results)}

\* the loop over the r/* tags of the handle other than r/parent, r/child
RECURSIVE DirectRelations(_, _, _, _, _)
DirectRelations(store, directRTags, i, results, r) ==
  IF i > Len(directRTags) THEN results
  ELSE LET parts == directRTags[i]
           noteId == parts[Len(parts)]
           type == SubSeq(parts, 2, Len(parts) - 1)
           matches == FilterNotes(store, {<<"note-id", noteId>>}, {}, r)
           push == /\ Len(parts) >= 3
                   /\ Len(matches) > 0
                   /\ matches[1] \notin Uuids(results)
       IN  DirectRelations(store, directRTags, i + 1,
                           IF push THEN Append(results, [type |-> type, uuid |-> matches[1]])
                           ELSE results, r)

\* the loop over the notes that point to this one
RECURSIVE OtherRelations(_, _, _, _)
OtherRelations(relatedNotes, i, results, skip) ==
  IF i > Len(relatedNotes) THEN results
  ELSE OtherRelations(relatedNotes, i + 1,
                      IF relatedNotes[i] \in skip \/ relatedNotes[i] \in Uuids(results)
                      THEN results
                      ELSE Append(results, [type |-> <<"other">>, uuid |-> relatedNotes[i]]),
                      skip)

\* [tags, out, relations: the list of [type, uuid], hostOk, minted]
getReadableRelationships(store, h, r, ok) ==
  LET parents == getParentNotes(store, h.uuid, r)
      children == getChildNotes(store, h.uuid, r)
      res1 == [k \in 1..Len(parents) |-> [type |-> <<"parent">>, uuid |-> parents[k]]]
              \o [k \in 1..Len(children) |-> [type |-> <<"child">>, uuid |-> children[k]]]
      res2 == DirectRelations(store, SelectSeq(h.tags, IsDirectRTag), 1, res1, r)
      g == getNoteIdTag(store, h, ok)
      noteIdValue == Split(g.ret, 1)
      allNotes == FilterNotes(g.tags, {}, {<<"archive">>, <<"exclude">>}, r)
      relatedNotes ==
        SelectSeq(allNotes,
                  LAMBDA n : \E t \in g.tags[n] : StartsWith(t, <<"r">>) /\ EndsWith(t, noteIdValue))
      res3 == OtherRelations(relatedNotes, 1, res2, Range(parents) \cup Range(children))
  IN  IF g.out = "throw"
        THEN [tags |-> g.tags, out |-> "throw", relations |-> <<>>,
              hostOk |-> g.hostOk, minted |-> g.wrote]
      ELSE [tags |-> g.tags, out |-> "ok", relations |-> res3,
            hostOk |-> TRUE, minted |-> g.wrote]

\* ----------------------------------------------------------- getFilteredNotes
getFilteredNotesNoUniversal(store, baseTag, domainTags, r) ==
  LET notes == FilterNotes(store, IF baseTag # <<>> THEN {baseTag} ELSE {},
                           {<<"archive">>, <<"exclude">>}, r)
  IN  IF Len(domainTags) > 0
      THEN SelectSeq(notes, LAMBDA n : \E i \in 1..Len(domainTags) : domainTags[i] \in store[n])
      ELSE notes

\* baseTag '' is <<>>; domainTags is the array of domain tags
getFilteredNotes(store, baseTag, domainTags, r) ==
  LET notes == FilterNotes(store, IF baseTag # <<>> THEN {baseTag} ELSE {},
                           {<<"archive">>, <<"exclude">>}, r)
      Keep(n) ==
        LET noteDomainTags == SelectSeq(Listing(store[n], r), IsDomainTag)
        IN  \/ Len(noteDomainTags) = 0
            \/ \E i \in 1..Len(domainTags) : domainTags[i] \in Range(noteDomainTags)
  IN  IF Len(domainTags) > 0 THEN SelectSeq(notes, Keep) ELSE notes

\* ------------------------------------------------------------- list builders
\* note.name of the notes, and the order localeCompare puts the strings in
Name == [n1 |-> "Gamma", n2 |-> "Alpha", n3 |-> "Beta", n4 |-> "Delta"]

Collation == <<"", "202401", "202507", "Alpha", "Beta", "Delta", "Gamma">>

Rank(x) == CHOOSE k \in 1..Len(Collation) : Collation[k] = x

\* Array.prototype.sort with a comparator key[a] - key[b]; the sort is stable
Sort(s, key) ==
  LET n == Len(s)
      Before(i, j) == key[s[i]] < key[s[j]] \/ (key[s[i]] = key[s[j]] /\ i < j)
      Pos(i) == 1 + Cardinality({j \in 1..n : Before(j, i)})
  IN  [k \in 1..n |-> s[CHOOSE i \in 1..n : Pos(i) = k]]

\* a.name.localeCompare(b.name)
ByName(store) == [n \in DOMAIN store |-> Rank(Name[n])]

\* note.tags.find(t => t.startsWith('note-id/'))?.split('/')[1] || null  (null: "")
getNoteId(n) ==
  LET t == Find(SelectSeq(n.tags, IsNoteIdTag))
  IN  IF t = Undefined THEN "" ELSE Split(t, 1)

IsCompletedDateTag(t) == StartsWith(t, <<"project", "completed">>)

\* n.tags.find(t => t.startsWith('project/completed/'))?.split('/')[2] || ''
getDate(n) ==
  LET t == Find(SelectSeq(n.tags, IsCompletedDateTag))
  IN  IF t = Undefined THEN "" ELSE Split(t, 2)

\* getDate(b).localeCompare(getDate(a)): newest first
ByDateDescending(store, r) ==
  [n \in DOMAIN store |-> 0 - Rank(getDate(NotesFind(store, n, r)))]

IsProjectTag(t) == StartsWith(t, <<"project">>)

hasParentTag(n) == \E i \in 1..Len(n.tags) : IsParentTag(n.tags[i])

\* the parent ids in the order of the note's tags
getParentIds(n) ==
  LET parentTags == SelectSeq(n.tags, IsParentTag)
  IN  [i \in 1..Len(parentTags) |-> Split(parentTags[i], 2)]

\* the six-digit completion dates
YearMonths == {"202401", "202507"}

\* formatProjectLabel: the link to the note, and the completion date in brackets
\* ("Mon YYYY" for a six-digit value, the raw value otherwise)
formatProjectLabel(n) ==
  LET dateTag == getDate(n)
  IN  IF dateTag = "" THEN <<n.uuid>>
      ELSE IF dateTag \in YearMonths THEN <<n.uuid, "Mon YYYY", dateTag>>
      ELSE <<n.uuid, dateTag>>

\* one line of markdown: a bullet for a note, a status heading, the entry of an
\* empty status, or an empty line
Bullet(indentLevel, n) ==
  [kind |-> "note", indent |-> indentLevel, uuid |-> n.uuid, label |-> formatProjectLabel(n)]
Heading(label) == [kind |-> "heading", indent |-> 0, uuid |-> "", label |-> <<label>>]
NoMatchingProjects ==
  [kind |-> "none", indent |-> 1, uuid |-> "", label |-> <<"*No matching projects*">>]
EmptyLine == [kind |-> "empty", indent |-> 0, uuid |-> "", label |-> <<>>]

\* variant: one Set shared by all calls, which still holds the notes of the
\* output rendered last
DefaultVisitedShared ==
  {walk.md[j].uuid : j \in {k \in 1..Len(walk.md) : walk.md[k].kind = "note"}}

\* options.visited when the caller passes none: new Set()
DefaultVisited == {}

\* variant: no visited set; children are followed four levels down
RECURSIVE buildNestedNoteListNoVisited(_, _, _, _, _, _, _)
buildNestedNoteListNoVisited(store, notes, k, indentLevel, visited, includeChildren, r) ==
  IF k > Len(notes) THEN <<>>
  ELSE LET n == NotesFind(store, notes[k], r)
           noteId == getNoteId(n)
           children == Sort(getFilteredNotes(store, <<"r", "parent", noteId>>, <<>>, r),
                            ByName(store))
           childMarkdown ==
             IF includeChildren /\ noteId # "" /\ indentLevel < 4
               THEN buildNestedNoteListNoVisited(store, children, 1, indentLevel + 1, visited,
                                                 includeChildren, r)
               ELSE <<>>
       IN  <<Bullet(indentLevel, n)>> \o childMarkdown
             \o buildNestedNoteListNoVisited(store, notes, k + 1, indentLevel, visited,
                                             includeChildren, r)

\* buildNestedNoteList from the k-th note of the loop on: the lines of output.
\* visited is the set as the loop has left it before the k-th note.
RECURSIVE buildNestedNoteList(_, _, _, _, _, _, _)
buildNestedNoteList(store, notes, k, indentLevel, visited, includeChildren, r) ==
  IF k > Len(notes) THEN <<>>
  ELSE IF notes[k] \in visited
    THEN buildNestedNoteList(store, notes, k + 1, indentLevel, visited, includeChildren, r)
  ELSE LET n == NotesFind(store, notes[k], r)
           added == visited \cup {n.uuid}
           noteId == getNoteId(n)
           children == Sort(getFilteredNotes(store, <<"r", "parent", noteId>>, <<>>, r),
                            ByName(store))
           childMarkdown ==
             IF includeChildren /\ noteId # ""
               THEN buildNestedNoteList(store, children, 1, indentLevel + 1, added,
                                        includeChildren, r)
               ELSE <<>>
       IN  <<Bullet(indentLevel, n)>> \o childMarkdown
             \o buildNestedNoteList(store, notes, k + 1, indentLevel, added, includeChildren, r)

\* String.prototype.trim on the lines: the empty lines at the end are dropped
\* (no output starts with white space)
RECURSIVE Trim(_)
Trim(md) ==
  IF md # <<>> /\ md[Len(md)].kind = "empty" THEN Trim(SubSeq(md, 1, Len(md) - 1)) ELSE md

\* buildNestedProjectList, groupByStatus 'flat'
FlatMode(store, baseNotes, includeChildren, sortCompletedByDate, ignoreParentFiltering, r) ==
  LET IsRoot(u) ==
        LET n == NotesFind(store, u, r)
        IN  /\ \E i \in 1..Len(n.tags) : IsProjectTag(n.tags[i])
            /\ ignoreParentFiltering \/ ~hasParentTag(n)
      roots == Sort(SelectSeq(baseNotes, IsRoot),
                    IF sortCompletedByDate THEN ByDateDescending(store, r) ELSE ByName(store))
  IN  Trim(buildNestedNoteList(store, roots, 1, 0, DefaultVisited, includeChildren, r))

\* variant: the completed projects are listed before the someday projects
projectStatusesCompletedFirst ==
  << [tag |-> <<"project", "focus">>, label |-> "Focus Projects"],
     [tag |-> <<"project", "active">>, label |-> "Active Projects"],
     [tag |-> <<"project", "tracking">>, label |-> "Tracking Projects"],
     [tag |-> <<"project", "on-hold">>, label |-> "On Hold Projects"],
     [tag |-> <<"project", "future">>, label |-> "Future Projects"],
     [tag |-> <<"project", "completed">>, label |-> "Completed Projects"],
     [tag |-> <<"project", "someday">>, label |-> "Someday Projects"],
     [tag |-> <<"project", "canceled">>, label |-> "Canceled Projects"] >>

\* projectStatuses: tag and label
projectStatuses ==
  << [tag |-> <<"project", "focus">>, label |-> "Focus Projects"],
     [tag |-> <<"project", "active">>, label |-> "Active Projects"],
     [tag |-> <<"project", "tracking">>, label |-> "Tracking Projects"],
     [tag |-> <<"project", "on-hold">>, label |-> "On Hold Projects"],
     [tag |-> <<"project", "future">>, label |-> "Future Projects"],
     [tag |-> <<"project", "someday">>, label |-> "Someday Projects"],
     [tag |-> <<"project", "completed">>, label |-> "Completed Projects"],
     [tag |-> <<"project", "canceled">>, label |-> "Canceled Projects"] >>

\* getByNoteId: the base note that holds the id (the last one, if several do), else
\* the first match of getFilteredNotes; "" for null
getByNoteId(store, baseNotes, noteId, r) ==
  LET held == {i \in 1..Len(baseNotes) : getNoteId(NotesFind(store, baseNotes[i], r)) = noteId}
      matches == getFilteredNotes(store, <<"note-id", noteId>>, <<>>, r)
  IN  IF noteId = "" THEN ""
      ELSE IF held # {} THEN baseNotes[CHOOSE i \in held : \A j \in held : j <= i]
      ELSE IF Len(matches) > 0 THEN matches[1]
      ELSE ""

\* secondLevelRoots.set(uuid, note): a Map keeps the place of a key it already has
MapSet(roots, uuid) == IF uuid \in Range(roots) THEN roots ELSE Append(roots, uuid)

\* variant: every base note is taken as a root, parent tag or not
RootsWithoutParentAll(store, baseNotes, r) == baseNotes

\* the base notes without an r/parent tag, in the order of the list
RootsWithoutParent(store, baseNotes, r) ==
  SelectSeq(baseNotes, LAMBDA u : ~hasParentTag(NotesFind(store, u, r)))

\* rootsByStatus.get(status.tag): the roots whose first project/* tag is the status
\* tag or lies under it
RootsOfStatus(store, roots, prefix, r) ==
  LET Falls(u) ==
        LET statusTag == Find(SelectSeq(NotesFind(store, u, r).tags, IsProjectTag))
        IN  statusTag # Undefined /\ TagMatches(statusTag, prefix)
  IN  SelectSeq(roots, Falls)

\* the loop over projectStatuses from the k-th status on
RECURSIVE StatusSections(_, _, _, _, _, _)
StatusSections(store, roots, k, includeChildren, sortCompletedByDate, r) ==
  IF k > Len(projectStatuses) THEN <<>>
  ELSE LET status == projectStatuses[k]
           mine == RootsOfStatus(store, roots, status.tag, r)
           sorted ==
             IF status.tag = <<"project", "completed">> /\ sortCompletedByDate
               THEN Sort(mine, ByDateDescending(store, r))
               ELSE Sort(mine, ByName(store))
           section ==
             IF Len(mine) = 0 THEN <<NoMatchingProjects, EmptyLine>>
             ELSE buildNestedNoteList(store, sorted, 1, 1, DefaultVisited, includeChildren, r)
                    \o <<EmptyLine>>
       IN  <<Heading(status.label)>> \o section
             \o StatusSections(store, roots, k + 1, includeChildren, sortCompletedByDate, r)

\* buildNestedProjectList, groupByStatus 'full', once secondLevelRoots is complete
FullMode(store, roots, includeChildren, sortCompletedByDate, r) ==
  Trim(StatusSections(store, roots, 1, includeChildren, sortCompletedByDate, r))

\* ------------------------------------------------------------------ state
NoQuery == [baseTag |-> <<>>, domainTags |-> <<>>, result |-> <<>>]

\* the record kept of an operation: a is the note it was started on, b the other
\* note, rel the relation type (removeRelationship), ta and tb the note types computed
\* ret the tag returned (getNoteIdTag), had: the note held a note-id before the call,
\* heading: a section update found its heading in the note, replaced: it called
\* replaceNoteContent
Op(op, a, b, rel, ret, had, res) ==
  [op |-> op, a |-> a, b |-> b, rel |-> rel, ret |-> ret, had |-> had,
   ta |-> res.ta, tb |-> res.tb,
   out |-> res.out, hostOk |-> res.hostOk, minted |-> res.minted,
   heading |-> FALSE, replaced |-> FALSE]

NoResult == Result(<<>>, "ok", Null, Null, TRUE, FALSE)

\* no buildNestedProjectList call yet
NoArgs ==
  [baseTag |-> <<>>, groupByStatus |-> "", includeChildren |-> FALSE,
   sortCompletedByDate |-> FALSE, ignoreParentFiltering |-> FALSE]
NoCall == [args |-> NoArgs, md |-> <<>>]
NoWalk ==
  [phase |-> "idle", args |-> NoArgs, baseNotes |-> <<>>, roots |-> <<>>, i |-> 0,
   current |-> "", beat |-> FALSE, md |-> <<>>, prev |-> NoCall]

\* no footnote renumbered yet: the counter starts at 1
NoPass == [counter |-> 1, done |-> <<>>, sections |-> <<>>]

\* the tag sets notes start with: a type tag or none, no note-id and no relationship yet
Untyped == {}
Project == {<<"project", "active">>}
People == {<<"reference", "people", "uncategorized">>}
ListProject == {<<"list", "project">>, <<"project", "focus">>}

InitialStores ==
  {[n1 |-> Project, n2 |-> Project],
   [n1 |-> ListProject, n2 |-> People],
   [n1 |-> Untyped, n2 |-> Untyped],
   [n1 |-> People, n4 |-> People]}

\* stores: the tag stores to start from; b: the failures the host may report
\* no setNoteTags dialog is open
NoDialog == [phase |-> "idle", uuid |-> "", prompts |-> 0, cancelled |-> FALSE,
             chosen |-> <<>>, month |-> "", changes |-> 0]

\* no getNoteIdTag invocation is in flight
NoInvocation == [pc |-> "idle", uuid |-> "", baseId |-> "", candidate |-> <<>>, counter |-> 1]
NoCalls == [i \in 1..2 |-> NoInvocation]

InitWith(stores, b) ==
  /\ tags \in stores
  /\ rev \in BOOLEAN
  /\ note = NoNote
  /\ relations = <<>>
  /\ last = Op("init", "", "", <<>>, Undefined, FALSE, NoResult)
  /\ budget = b
  /\ steps = 0
  /\ query = NoQuery
  /\ walk = NoWalk
  /\ pass = NoPass
  /\ dialog = NoDialog
  /\ calls = NoCalls

Init == InitWith(InitialStores, MaxFailures)

\* ------------------------------------------------------------------ actions
\* the host's answers to the (up to four) tag mutations of one operation
Refused(oks) == Cardinality({i \in DOMAIN oks : ~oks[i]})
Oks == {oks \in [1..4 -> BOOLEAN] : Refused(oks) <= budget}
Ok == {ok \in BOOLEAN : ok \/ budget > 0}
Budget(hostOk, oks) == IF hostOk THEN budget ELSE budget - Refused(oks)

\* note = await app.notes.find(noteUUID): the caller takes a handle
FindNote(n) ==
  /\ note' = NotesFind(tags, n, rev)
  /\ relations' = <<>>
  /\ last' = Op("find", n, "", <<>>, Undefined, FALSE, NoResult)
  /\ UNCHANGED <<tags, rev, budget, steps, query, walk, pass, dialog, calls>>

\* plugin.getNoteIdTag(app, note) on the held handle
GetNoteIdTag(ok) ==
  /\ note # NoNote
  /\ LET g == getNoteIdTag(tags, note, ok)
     IN  /\ tags' = g.tags
         /\ last' = Op("getNoteIdTag", note.uuid, "", <<>>, g.ret,
                       NoteIdTags(tags, note.uuid) # {},
                       Result(g.tags, g.out, Null, Null, g.hostOk, g.wrote))
         /\ budget' = Budget(g.hostOk, <<ok>>)
  /\ UNCHANGED <<rev, note, relations, steps, query, walk, pass, dialog, calls>>

\* variant: the note-id is ensured before the heading is looked for
UpdateRelatedProjectsSectionIdFirst(n, present, ok) ==
  /\ LET g == getNoteIdTag(tags, NotesFind(tags, n, rev), ok)
     IN  /\ tags' = g.tags
         /\ last' = [Op("updateRelatedProjectsSection", n, "", <<>>, g.ret,
                        NoteIdTags(tags, n) # {},
                        Result(g.tags, IF present THEN g.out ELSE "skipped", Null, Null,
                               g.hostOk, g.wrote))
                       EXCEPT !.heading = present, !.replaced = present /\ g.out = "ok"]
         /\ budget' = Budget(g.hostOk, <<ok>>)
  /\ UNCHANGED <<rev, note, relations, steps, query, walk, pass, dialog, calls>>

\* plugin.updateRelatedProjectsSection(app, noteUUID), as far as the tag store goes:
\* without the section heading it returns at once, with it the note is loaded and
\* its note-id ensured before the section is rendered (`present`: the note has the
\* heading)
UpdateRelatedProjectsSection(n, present, ok) ==
  /\ LET g == getNoteIdTag(tags, NotesFind(tags, n, rev), ok)
     IN  IF present
         THEN /\ tags' = g.tags
              /\ last' = [Op("updateRelatedProjectsSection", n, "", <<>>, g.ret,
                             NoteIdTags(tags, n) # {},
                             Result(g.tags, g.out, Null, Null, g.hostOk, g.wrote))
                            EXCEPT !.heading = TRUE, !.replaced = g.out = "ok"]
              /\ budget' = Budget(g.hostOk, <<ok>>)
         ELSE /\ last' = Op("updateRelatedProjectsSection", n, "", <<>>, Undefined,
                            NoteIdTags(tags, n) # {},
                            Result(tags, "skipped", Null, Null, TRUE, FALSE))
              /\ UNCHANGED <<tags, budget>>
  /\ UNCHANGED <<rev, note, relations, steps, query, walk, pass, dialog, calls>>

\* currentRelations = await plugin.getReadableRelationships(app, note)
GetReadableRelationships(ok) ==
  /\ note # NoNote
  /\ LET g == getReadableRelationships(tags, note, rev, ok)
     IN  /\ tags' = g.tags
         /\ relations' = g.relations
         /\ last' = Op("getReadableRelationships", note.uuid, "", <<>>, Undefined, FALSE,
                       Result(g.tags, g.out, Null, Null, g.hostOk, g.minted))
         /\ budget' = Budget(g.hostOk, <<ok>>)
  /\ UNCHANGED <<rev, note, steps, query, walk, pass, dialog, calls>>

\* plugin.setParentChildRelationship(app, childUUID, parentUUID)
SetParentChildRelationship(c, p, oks) ==
  /\ steps < MaxSteps
  /\ LET g == setParentChildRelationship(tags, c, p, rev, oks)
     IN  /\ tags' = g.tags
         /\ last' = Op("setParentChildRelationship", c, p, <<>>, Undefined, FALSE, g)
         /\ budget' = Budget(g.hostOk, oks)
  /\ steps' = steps + 1
  /\ UNCHANGED <<rev, note, relations, query, walk, pass, dialog, calls>>

\* plugin.addRelationshipByType(app, note, relatedHandle)
AddRelationshipByType(m, oks) ==
  /\ note # NoNote
  /\ steps < MaxSteps
  /\ LET g == addRelationshipByType(tags, note, m, rev, oks)
     IN  /\ tags' = g.tags
         /\ last' = Op("addRelationshipByType", note.uuid, m, <<>>, Undefined, FALSE, g)
         /\ budget' = Budget(g.hostOk, oks)
  /\ steps' = steps + 1
  /\ UNCHANGED <<rev, note, relations, query, walk, pass, dialog, calls>>

\* plugin.removeRelationship(app, note, relation), the relation picked by its label
\* among currentRelations
RemoveRelationship(i, oks) ==
  /\ note # NoNote
  /\ steps < MaxSteps
  /\ i \in 1..Len(relations)
  /\ LET g == removeRelationship(tags, note, relations[i], rev, oks)
     IN  /\ tags' = g.tags
         /\ last' = Op("removeRelationship", note.uuid, relations[i].uuid, relations[i].type,
                       Undefined, FALSE, g)
         /\ budget' = Budget(g.hostOk, oks)
  /\ steps' = steps + 1
  /\ UNCHANGED <<rev, note, relations, query, walk, pass, dialog, calls>>

\* the identity service: note ids minted through a handle taken at any earlier time
\* (getNoteIdTag on the held note) and through fresh handles of any note
NextIds ==
  \/ \E n \in DOMAIN tags : FindNote(n)
  \/ \E ok \in Ok : GetNoteIdTag(ok)
  \/ \E n \in DOMAIN tags : \E present \in BOOLEAN : \E ok \in Ok :
       UpdateRelatedProjectsSection(n, present, ok)

InitIds ==
  InitWith({[n1 |-> Project, n2 |-> Project, n3 |-> Project],
            [n1 |-> Project, n2 |-> People, n4 |-> Project]}, MaxFailures)

SpecIds == InitIds /\ [][NextIds]_vars

\* parent/child edges: set through setParentChildRelationship, removed through
\* removeRelationship on a relation listed by getReadableRelationships
NextParentChild ==
  \/ \E n \in DOMAIN tags : FindNote(n)
  \/ \E ok \in Ok : GetReadableRelationships(ok)
  \/ \E c, p \in DOMAIN tags : \E oks \in Oks : SetParentChildRelationship(c, p, oks)
  \/ \E i \in 1..Len(relations) : \E oks \in Oks : RemoveRelationship(i, oks)

\* the host performs every tag mutation
InitParentChild ==
  InitWith({[n1 |-> ListProject, n2 |-> Project],
            [n1 |-> People, n4 |-> People],
            [n1 |-> Project, n2 |-> People]}, 0)

SpecParentChild == InitParentChild /\ [][NextParentChild]_vars

\* typed relationships added from a held note
NextAdd ==
  \/ \E n \in DOMAIN tags : FindNote(n)
  \/ \E ok \in Ok : GetNoteIdTag(ok)
  \/ \E m \in DOMAIN tags : \E oks \in Oks : AddRelationshipByType(m, oks)

InitAdd ==
  InitWith({[n1 |-> Project, n2 |-> Project],
            [n1 |-> Project, n2 |-> People],
            [n1 |-> People, n2 |-> Untyped],
            [n1 |-> People, n4 |-> People]}, MaxFailures)

SpecAdd == InitAdd /\ [][NextAdd]_vars

\* plugin.clearAllTags(app, noteUUID): every tag the note is listed with is removed
clearAllTags(store, noteUUID, r) ==
  LET n == NotesFind(store, noteUUID, r)
  IN  [store EXCEPT ![noteUUID] = @ \ Range(n.tags)]

ClearAllTags(n) ==
  /\ steps < MaxSteps
  /\ steps' = steps + 1
  /\ tags' = clearAllTags(tags, n, rev)
  /\ last' = Op("clearAllTags", n, "", <<>>, Undefined,
                \E t \in tags[n] : IsNoteIdTag(t), NoResult)
  /\ UNCHANGED <<rev, note, relations, budget, query, walk, pass, dialog, calls>>

\* note ids, with the notes' tags cleared in between
NextClear ==
  \/ NextIds
  \/ \E n \in DOMAIN tags : ClearAllTags(n)

InitClear == InitWith({[n1 |-> Project, n2 |-> Project]}, 0)

SpecClear == InitClear /\ [][NextClear]_vars

\* relationships set while the host may refuse a tag write
NextHostFails ==
  \/ \E n \in DOMAIN tags : FindNote(n)
  \/ \E c, p \in DOMAIN tags : \E oks \in Oks :
       steps < MaxHostSteps /\ SetParentChildRelationship(c, p, oks)
  \/ \E m \in DOMAIN tags : \E oks \in Oks :
       steps < MaxHostSteps /\ AddRelationshipByType(m, oks)

InitHostFails == InitWith({[n1 |-> People, n2 |-> People]}, MaxFailures)

SpecHostFails == InitHostFails /\ [][NextHostFails]_vars

\* relationships asked for between notes of which one or both have no type tag
NextUntyped ==
  \/ \E n \in DOMAIN tags : FindNote(n)
  \/ \E c, p \in DOMAIN tags : \E oks \in Oks : SetParentChildRelationship(c, p, oks)
  \/ \E m \in DOMAIN tags : \E oks \in Oks : AddRelationshipByType(m, oks)

InitUntyped ==
  InitWith({[n1 |-> Untyped, n2 |-> Untyped],
            [n1 |-> People, n2 |-> Untyped]}, 0)

SpecUntyped == InitUntyped /\ [][NextUntyped]_vars

\* the listing functions' call: plugin.getFilteredNotes(app, baseTag, domainTags)
GetFilteredNotes(baseTag, domainTags) ==
  /\ query' = [baseTag |-> baseTag, domainTags |-> domainTags,
               result |-> getFilteredNotes(tags, baseTag, domainTags, rev)]
  /\ last' = Op("getFilteredNotes", "", "", <<>>, Undefined, FALSE, NoResult)
  /\ UNCHANGED <<tags, rev, note, relations, budget, steps, walk, pass, dialog, calls>>

\* the tag sets of the notes a listing is asked over
Work == <<"d", "work">>
Home == <<"d", "home">>
QueryTagSets ==
  {{}, {Work}, {Home}, {Work, Home}, {<<"project", "active">>, Home},
   {<<"project", "active">>, <<"archive">>}, {<<"d", "work", "deep">>}}

BaseTags == {<<>>, <<"project">>}
DomainFilters == {<<>>, <<Work>>, <<Home>>, <<Work, Home>>}

NextQuery ==
  \E baseTag \in BaseTags : \E domainTags \in DomainFilters :
    GetFilteredNotes(baseTag, domainTags)

InitQuery == InitWith([{"n1", "n2", "n3"} -> QueryTagSets], 0)

SpecQuery == InitQuery /\ [][NextQuery]_vars

\* ------------------------------------------------------------- list rendering
\* the next base note from the i-th on that has an r/parent tag (the loop that
\* calls getTopAncestor), Len + 1 when there is none
RECURSIVE NextWithParent(_, _, _, _)
NextWithParent(store, baseNotes, i, r) ==
  IF i > Len(baseNotes) THEN i
  ELSE IF hasParentTag(NotesFind(store, baseNotes[i], r)) THEN i
  ELSE NextWithParent(store, baseNotes, i + 1, r)

\* the option sets the callers pass (updateRelatedProjectsSection: the defaults;
\* updateBracketedSections: date sort and no parent filter for [completed] only),
\* with and without children
CallOptions ==
  {[includeChildren |-> c, sortCompletedByDate |-> o[1], ignoreParentFiltering |-> o[2]] :
     c \in BOOLEAN, o \in {<<TRUE, FALSE>>, <<TRUE, TRUE>>, <<FALSE, FALSE>>}}

RenderBaseTags == {<<"project">>, <<"project", "completed">>, <<"project", "focus">>}

\* plugin.buildNestedProjectList(app, {baseNotes, groupByStatus, ...}) up to its
\* return in 'flat' mode, up to the first getTopAncestor call in 'full' mode.
\* baseNotes is what getFilteredNotes returns for the base tag.
BuildNestedProjectList(baseTag, groupByStatus, o) ==
  /\ walk.phase \in {"idle", "returned"}
  /\ LET baseNotes == getFilteredNotes(tags, baseTag, <<>>, rev)
         args == [baseTag |-> baseTag, groupByStatus |-> groupByStatus,
                  includeChildren |-> o.includeChildren,
                  sortCompletedByDate |-> o.sortCompletedByDate,
                  ignoreParentFiltering |-> o.ignoreParentFiltering]
         prev == IF walk.phase = "returned" /\ walk.args = args
                 THEN [args |-> walk.args, md |-> walk.md]
                 ELSE NoCall
         first == NextWithParent(tags, baseNotes, 1, rev)
     IN  walk' =
           IF groupByStatus = "flat"
           THEN [phase |-> "returned", args |-> args, baseNotes |-> baseNotes,
                 roots |-> <<>>, i |-> 0, current |-> "", beat |-> FALSE,
                 md |-> FlatMode(tags, baseNotes, o.includeChildren, o.sortCompletedByDate,
                                 o.ignoreParentFiltering, rev),
                 prev |-> prev]
           ELSE [phase |-> IF first <= Len(baseNotes) THEN "ancestors" ELSE "render",
                 args |-> args, baseNotes |-> baseNotes,
                 roots |-> RootsWithoutParent(tags, baseNotes, rev), i |-> first,
                 current |-> IF first <= Len(baseNotes) THEN baseNotes[first] ELSE "",
                 beat |-> FALSE, md |-> <<>>, prev |-> prev]
  /\ UNCHANGED <<tags, rev, note, relations, last, budget, steps, query, pass, dialog, calls>>

\* one iteration of the while (true) loop of getTopAncestor; on return the top is
\* put into secondLevelRoots and the loop over baseNotes goes on to the next note
\* with a parent tag.  beat tells the iterations of the loop apart.
GetTopAncestorStep ==
  /\ walk.phase = "ancestors"
  /\ LET parentIds == getParentIds(NotesFind(tags, walk.current, rev))
         firstParent == IF Len(parentIds) = 0 THEN ""
                        ELSE getByNoteId(tags, walk.baseNotes, parentIds[1], rev)
         next == NextWithParent(tags, walk.baseNotes, walk.i + 1, rev)
     IN  walk' =
           IF firstParent = ""
           THEN [walk EXCEPT !.phase = IF next <= Len(walk.baseNotes)
                                       THEN "ancestors" ELSE "render",
                             !.roots = MapSet(@, walk.current), !.i = next,
                             !.current = IF next <= Len(walk.baseNotes)
                                         THEN walk.baseNotes[next] ELSE "",
                             !.beat = FALSE]
           ELSE [walk EXCEPT !.current = firstParent, !.beat = ~@]
  /\ UNCHANGED <<tags, rev, note, relations, last, budget, steps, query, pass, dialog, calls>>

\* the rest of the 'full' mode: the roots by status, the sections, the return
RenderFull ==
  /\ walk.phase = "render"
  /\ walk' = [walk EXCEPT !.phase = "returned",
                          !.md = FullMode(tags, walk.roots, walk.args.includeChildren,
                                          walk.args.sortCompletedByDate, rev)]
  /\ UNCHANGED <<tags, rev, note, relations, last, budget, steps, query, pass, dialog, calls>>

\* the notes a list is rendered from: every note is a project with a note-id, and
\* holds no r/parent tag or one naming a note, itself, or a note that is not there
RenderNotes == {"n1", "n2", "n3"}
RenderIds == [n1 |-> "20250726141507", n2 |-> "20250726141507-1", n3 |-> "20250726141507-2"]
Gone == "20240101000000"
RenderStatus ==
  [n1 |-> <<"project", "active">>,
   n2 |-> <<"project", "completed", "202401">>,
   n3 |-> <<"project", "completed", "202507">>]
ParentChoices == {""} \cup {RenderIds[n] : n \in RenderNotes} \cup {Gone}
RenderStores ==
  {[n \in RenderNotes |->
      {<<"note-id", RenderIds[n]>>, RenderStatus[n]}
        \cup (IF p[n] = "" THEN {} ELSE {<<"r", "parent", p[n]>>})] :
     p \in [RenderNotes -> ParentChoices]}

NextRender ==
  \/ \E baseTag \in RenderBaseTags : \E groupByStatus \in {"flat", "full"} :
       \E o \in CallOptions : BuildNestedProjectList(baseTag, groupByStatus, o)
  \/ GetTopAncestorStep
  \/ RenderFull

InitRender == InitWith(RenderStores, 0)

SpecRender == InitRender /\ [][NextRender]_vars

\* the host answers every call and the plugin runs on: the loop of getTopAncestor
\* is taken whenever it can be
InitRenderFair ==
  InitWith({s \in RenderStores : ~\E t \in s["n3"] : IsParentTag(t)}, 0)

SpecRenderFair ==
  /\ InitRenderFair
  /\ [][NextRender]_vars
  /\ WF_vars(GetTopAncestorStep)

\* ------------------------------------------------------------------ footnotes
\* A content fragment is the sequence of its footnote marks: [^label] is a
\* reference, [^label]: at the start of a line a definition.
FootnoteLabels == {"1", "fn1"}
Mark(def, label) == [def |-> def, label |-> label]
Marks == {Mark(def, label) : def \in BOOLEAN, label \in FootnoteLabels}
Contents == UNION {[1..n -> Marks] : n \in 1..MaxTokens}

\* labelMap[label] = value on a labelMap given as a function
MapPut(labelMap, label, value) ==
  [l \in DOMAIN labelMap \cup {label} |-> IF l = label THEN value ELSE labelMap[l]]

\* content.replace(refRegex, ...) from the k-th mark on: refRegex matches the
\* bracket of references and of definitions alike; a label not yet in labelMap is
\* given `fn${counter++}`
RECURSIVE ReplaceRefs(_, _, _, _)
ReplaceRefs(content, k, labelMap, counter) ==
  IF k > Len(content)
  THEN [updatedContent |-> <<>>, labelMap |-> labelMap, counter |-> counter]
  ELSE LET label == content[k].label
           fresh == label \notin DOMAIN labelMap
           map == IF fresh THEN MapPut(labelMap, label, "fn" \o ToString(counter))
                  ELSE labelMap
           rest == ReplaceRefs(content, k + 1, map, IF fresh THEN counter + 1 ELSE counter)
       IN  [rest EXCEPT !.updatedContent = <<Mark(content[k].def, map[label])>> \o @]

\* .replace(defRegex, ...) on the text the first replace returned: a definition
\* whose label is a key of labelMap gets labelMap[label]
ReplaceDefs(content, labelMap) ==
  [k \in 1..Len(content) |->
     IF content[k].def /\ content[k].label \in DOMAIN labelMap
     THEN Mark(TRUE, labelMap[content[k].label])
     ELSE content[k]]

uniquifyFootnotes(content, counterStart) ==
  LET refs == ReplaceRefs(content, 1, <<>>, counterStart)
  IN  [updatedContent |-> ReplaceDefs(refs.updatedContent, refs.labelMap),
       nextCounter |-> refs.counter]

\* one task line of a section: its content goes through uniquifyFootnotes with the
\* running counter, which takes the nextCounter returned
UniquifyFootnotes(content) ==
  /\ Len(pass.done) < MaxFragments
  /\ LET u == uniquifyFootnotes(content, pass.counter)
     IN  pass' = [pass EXCEPT
                    !.counter = u.nextCounter,
                    !.done = Append(@, [content |-> content,
                                        updatedContent |-> u.updatedContent,
                                        counterStart |-> pass.counter,
                                        nextCounter |-> u.nextCounter])]
  /\ UNCHANGED <<tags, rev, note, relations, last, budget, steps, query, walk, dialog, calls>>

\* updateBracketedSections: the markdown of the section is written into the note
\* (replaceNoteContent) and the loop goes on to the next section, whose
\* buildNestedProjectList call starts with footnoteCounter = 1
ReplaceSection ==
  /\ Len(pass.sections) < MaxSections
  /\ pass' = [counter |-> 1, done |-> <<>>, sections |-> Append(pass.sections, pass.done)]
  /\ UNCHANGED <<tags, rev, note, relations, last, budget, steps, query, walk, dialog, calls>>

\* the task lines of one section (updateRelatedTasksSection)
NextFootnotes == \E content \in Contents : UniquifyFootnotes(content)

InitFootnotes == InitWith({[n1 |-> Project]}, 0)

SpecFootnotes == InitFootnotes /\ [][NextFootnotes]_vars

\* a pass over the bracketed sections of a weekly-review list note: every task
\* line holds one reference
PassContents == {<<Mark(FALSE, label)>> : label \in FootnoteLabels}

NextPass ==
  \/ \E content \in PassContents : UniquifyFootnotes(content)
  \/ ReplaceSection

SpecPass == InitFootnotes /\ [][NextPass]_vars

\* ------------------------------------------------------------------ claims
\* the YYYYMMDDHHMMSS value of a note's creation time
BaseIdOf(n) ==
  Created[n][1] \o Created[n][2] \o Created[n][3] \o Created[n][4] \o Created[n][5]
    \o Created[n][6]

\* the notes created in the second `base` that hold a note-id
HoldersOf(base) == {n \in DOMAIN tags : BaseIdOf(n) = base /\ NoteIdTags(tags, n) # {}}

\* the bare value and the suffixes -1 .. -(m-1)
ExpectedIds(base, m) ==
  IF m = 0 THEN {}
  ELSE {<<"note-id", base>>} \cup {<<"note-id", base \o "-" \o ToString(k)>> : k \in 1..(m - 1)}

\* C1: after any sequence of (non-interleaved) getNoteIdTag calls no two distinct
\* notes hold the same note-id tag, and the notes of one creation second that hold
\* a note-id hold exactly the bare YYYYMMDDHHMMSS value and the suffixes -1, -2, ...
\* in sequence.
UniqueNoteIds ==
  /\ \A a, b \in DOMAIN tags :
        a # b => NoteIdTags(tags, a) \cap NoteIdTags(tags, b) = {}
  /\ \A n \in DOMAIN tags :
        LET H == HoldersOf(BaseIdOf(n))
        IN  UNION {NoteIdTags(tags, h) : h \in H} = ExpectedIds(BaseIdOf(n), Cardinality(H))

\* three notes of the same second all hold a note-id (bare, -1, -2)
UniqueNoteIdsWitness ==
  /\ DOMAIN tags = {"n1", "n2", "n3"}
  /\ \A n \in DOMAIN tags : NoteIdTags(tags, n) # {}

\* C2: getNoteIdTag is idempotent per note: a note never holds more than one
\* note-id tag, a note-id once held is never changed, and every successful call
\* returns the one note-id the note holds, also through a handle loaded before the
\* first mint.
IdempotentNoteId ==
  [][\A n \in DOMAIN tags :
       /\ Cardinality(NoteIdTags(tags', n)) <= 1
       /\ NoteIdTags(tags, n) # {} => NoteIdTags(tags', n) = NoteIdTags(tags, n)
       /\ (last'.op = "getNoteIdTag" /\ last'.a = n /\ last'.out = "ok")
            => NoteIdTags(tags', n) = {last'.ret}]_vars

\* a call through a stale handle: the note already held a note-id and the call
\* went through the generator and addTag again
IdempotentNoteIdWitness ==
  /\ last.op = "getNoteIdTag"
  /\ last.out = "ok"
  /\ last.had
  /\ last.minted

\* the note-id values a note holds
IdsOf(store, n) == {Split(t, 1) : t \in NoteIdTags(store, n)}

IsRelationshipTag(t) == StartsWith(t, <<"r">>)

\* C3: parent/child edges exist in complementary pairs: after any sequence of
\* setParentChildRelationship and removeRelationship operations on a host that
\* performs every tag mutation, A holds r/parent/<id of B> exactly when B holds
\* r/child/<id of A>.
ParentChildSymmetry ==
  \A a, b \in DOMAIN tags :
    \A ia \in IdsOf(tags, a), ib \in IdsOf(tags, b) :
      (<<"r", "parent", ib>> \in tags[a]) <=> (<<"r", "child", ia>> \in tags[b])

\* an edge is left after another one was removed
ParentChildSymmetryWitness ==
  /\ last.op = "removeRelationship"
  /\ last.out = "ok"
  /\ \E a \in DOMAIN tags : \E t \in tags[a] : IsParentTag(t)

\* C4: after setParentChildRelationship(child, parent) has succeeded,
\* getParentNotes(child) includes parent and getChildNotes(parent) includes child.
ParentChildLookup ==
  (last.op = "setParentChildRelationship" /\ last.out = "ok" /\ last.hostOk)
    => /\ last.b \in Range(getParentNotes(tags, last.a, rev))
       /\ last.a \in Range(getChildNotes(tags, last.b, rev))

\* child and parent are two notes of the same second, one of them with a suffixed id
ParentChildLookupWitness ==
  /\ last.op = "setParentChildRelationship"
  /\ last.out = "ok"
  /\ last.a # last.b
  /\ BaseIdOf(last.a) = BaseIdOf(last.b)
  /\ \E n \in {last.a, last.b} : IdsOf(tags, n) # {} /\ IdsOf(tags, n) # {BaseIdOf(n)}

\* C5: removeRelationship on a parent (child) relation of note A to note B, on a
\* host that performs the removals, leaves neither r/parent/<B> on A nor
\* r/child/<A> on B (resp. r/child/<B> on A, r/parent/<A> on B), and changes no
\* other relationship tag of any note.
RemoveBothDirections ==
  [][(/\ last'.op = "removeRelationship"
      /\ steps' = steps + 1
      /\ last'.out = "ok"
      /\ last'.hostOk
      /\ last'.rel \in {<<"parent">>, <<"child">>})
     => LET a == last'.a
            b == last'.b
            mine == IF last'.rel = <<"parent">> THEN "parent" ELSE "child"
            theirs == IF last'.rel = <<"parent">> THEN "child" ELSE "parent"
            gone == {<<a, <<"r", mine, ib>>>> : ib \in IdsOf(tags', b)}
                      \cup {<<b, <<"r", theirs, ia>>>> : ia \in IdsOf(tags', a)}
        IN  /\ IdsOf(tags', a) # {} /\ IdsOf(tags', b) # {}
            /\ \A g \in gone : g[2] \notin tags'[g[1]]
            /\ \A n \in DOMAIN tags :
                 \A t \in tags[n] \cup tags'[n] :
                   (IsRelationshipTag(t) /\ <<n, t>> \notin gone)
                     => (t \in tags[n] <=> t \in tags'[n])]_vars

\* a parent or child relation was removed while another relationship tag stays
RemoveBothDirectionsWitness ==
  /\ last.op = "removeRelationship"
  /\ last.out = "ok"
  /\ last.rel \in {<<"parent">>, <<"child">>}
  /\ \E t \in tags[last.a] \cup tags[last.b] : IsRelationshipTag(t)

\* C6: setParentChildRelationship between two notes whose getNoteType results
\* differ ends with an alert and leaves every tag set as it was: no r/parent, no
\* r/child and no note-id tag is added.
TypeMismatchRejected ==
  [][(/\ last'.op = "setParentChildRelationship"
      /\ steps' = steps + 1
      /\ getNoteType(NotesFind(tags, last'.a, rev))
           # getNoteType(NotesFind(tags, last'.b, rev)))
     => (last'.out = "alert" /\ tags' = tags)]_vars

\* a project and a people note, neither with a note-id, were refused
TypeMismatchRejectedWitness ==
  /\ last.op = "setParentChildRelationship"
  /\ last.out = "alert"
  /\ {last.ta, last.tb} = {<<"project">>, <<"people">>}
  /\ \A n \in DOMAIN tags : NoteIdTags(tags, n) = {}

\* a note that carries a project/* status tag
IsProjectNote(store, n) == \E t \in store[n] : StartsWith(t, <<"project">>)

RelationshipTags(store, n) == {t \in store[n] : IsRelationshipTag(t)}

\* a step of addRelationshipByType between two different notes
AddedBetweenTwo ==
  /\ last'.op = "addRelationshipByType"
  /\ steps' = steps + 1
  /\ last'.a # last'.b

\* C7: addRelationshipByType between two notes that both carry a project/*
\* status tag ends with a user-facing error and adds no r/* tag to either note.
ProjectToProjectRejected ==
  [][(/\ AddedBetweenTwo
      /\ IsProjectNote(tags, last'.a)
      /\ IsProjectNote(tags, last'.b))
     => /\ last'.out = "alert"
        /\ \A n \in DOMAIN tags : RelationshipTags(tags', n) = RelationshipTags(tags, n)]_vars

\* C8: when exactly one of the two notes is a project (the other has a type and
\* no project/* tag) and the host performs the writes, the project note gains
\* exactly r/<type of the other note>/<its id> and the other note gains no r/*
\* tag, from whichever of the two the action was started.
OneDirectionalToProject ==
  [][(/\ AddedBetweenTwo
      /\ last'.hostOk
      /\ \E p, o \in DOMAIN tags :
           /\ {p, o} = {last'.a, last'.b}
           /\ IsProjectNote(tags, p)
           /\ ~IsProjectNote(tags, o)
           /\ \E t \in tags[o] : IsTypeTag(t))
     => \E p, o \in DOMAIN tags :
          /\ {p, o} = {last'.a, last'.b}
          /\ IsProjectNote(tags, p)
          /\ ~IsProjectNote(tags, o)
          /\ \E io \in IdsOf(tags', o) :
               RelationshipTags(tags', p) =
                 RelationshipTags(tags, p)
                   \cup {<<"r">> \o getNoteType(NotesFind(tags, o, rev)) \o <<io>>}
          /\ RelationshipTags(tags', o) = RelationshipTags(tags, o)]_vars

\* the edge on both notes, each named by the other's type and id
TaggedBothWays(store, a, b, typeA, typeB) ==
  /\ \E ib \in IdsOf(store, b) : <<"r">> \o typeB \o <<ib>> \in store[a]
  /\ \E ia \in IdsOf(store, a) : <<"r">> \o typeA \o <<ia>> \in store[b]

DomainTagsOf(store, n) == {t \in store[n] : IsDomainTag(t)}

\* C10: getFilteredNotes with a non-empty domain filter returns exactly the host
\* query matches that carry no d/* tag or at least one d/* tag of the filter: a
\* match without a domain tag is returned for every filter, a note tagged only
\* d/home is not returned for the filter [d/work], and an empty filter drops no
\* match.
DomainFilterExact ==
  last.op = "getFilteredNotes"
    => LET matches == FilterNotes(tags, IF query.baseTag # <<>> THEN {query.baseTag} ELSE {},
                                  {<<"archive">>, <<"exclude">>}, rev)
           filter == Range(query.domainTags)
           Passes(n) == \/ DomainTagsOf(tags, n) = {}
                        \/ DomainTagsOf(tags, n) \cap filter # {}
       IN  /\ filter # {} => query.result = SelectSeq(matches, Passes)
           /\ filter = {} => query.result = matches
           /\ \A n \in Range(matches) :
                /\ DomainTagsOf(tags, n) = {} => n \in Range(query.result)
                /\ (DomainTagsOf(tags, n) = {Home} /\ query.domainTags = <<Work>>)
                     => n \notin Range(query.result)

\* the filter [d/work] kept a match without a domain tag and one tagged d/work and
\* dropped a match tagged only d/home
DomainFilterExactWitness ==
  /\ last.op = "getFilteredNotes"
  /\ query.domainTags = <<Work>>
  /\ \E a, b, c \in DOMAIN tags :
       /\ DomainTagsOf(tags, a) = {} /\ a \in Range(query.result)
       /\ Work \in tags[b] /\ b \in Range(query.result)
       /\ DomainTagsOf(tags, c) = {Home} /\ ~(\E t \in tags[c] : t \in {<<"archive">>, <<"exclude">>})
       /\ c \notin Range(query.result)

\* C11: rendering terminates for every tag configuration, a parent/child cycle or
\* a note naming itself as parent included: a buildNestedProjectList call returns
\* in 'flat' mode at once, and in 'full' mode it gets through the root discovery
\* (the getTopAncestor loops) to the rendering of the sections, with or without
\* ignoreParentFiltering.
RenderingTerminates ==
  /\ [](walk.args.groupByStatus = "flat" => walk.phase = "returned")
  /\ (walk.phase = "ancestors") ~> (walk.phase \in {"render", "returned"})

\* the lines of md above line j that line j hangs under: for each smaller indent the
\* last bullet or heading of that indent before j
PathAbove(md, j) ==
  {i \in 1..(j - 1) :
     /\ md[i].kind \in {"note", "heading"}
     /\ md[i].indent < md[j].indent
     /\ \A k \in (i + 1)..(j - 1) :
          md[k].kind \in {"note", "heading"} => md[k].indent > md[i].indent}

\* the depth of a bullet in the rendered tree (the roots of 'full' mode are at indent 1)
DepthOf(md, j) == Cardinality({i \in PathAbove(md, j) : md[i].kind = "note"}) + 1

\* C12: in the output of buildNestedNoteList no note appears twice on one
\* root-to-leaf path, and no bullet lies deeper than the number of notes.
NoNoteTwiceOnPath ==
  walk.phase = "returned" =>
    \A j \in 1..Len(walk.md) :
      walk.md[j].kind = "note" =>
        /\ \A i \in PathAbove(walk.md, j) : walk.md[i].uuid # walk.md[j].uuid
        /\ DepthOf(walk.md, j) <= Cardinality(DOMAIN tags)

\* a note was rendered under a note that names it as parent (a cycle): the child
\* found on the path was skipped
NoNoteTwiceOnPathWitness ==
  /\ walk.phase = "returned"
  /\ walk.args.includeChildren
  /\ \E j \in 1..Len(walk.md) :
       /\ walk.md[j].kind = "note"
       /\ \E i \in PathAbove(walk.md, j) :
            /\ walk.md[i].kind = "note"
            /\ <<"r", "parent", RenderIds[walk.md[j].uuid]>> \in tags[walk.md[i].uuid]

TopLevelBullets ==
  {j \in 1..Len(walk.md) :
     /\ walk.md[j].kind = "note"
     /\ walk.md[j].indent = IF walk.args.groupByStatus = "flat" THEN 0 ELSE 1}

\* the note the first r/parent id of note u resolves to, "" when u has no parent
\* tag or no note holds the id
FirstParentOf(u) ==
  LET parentIds == getParentIds(NotesFind(tags, u, rev))
  IN  IF Len(parentIds) = 0 THEN ""
      ELSE getByNoteId(tags, walk.baseNotes, parentIds[1], rev)

\* the notes met from u by following first parents at most k times
RECURSIVE ChainFrom(_, _)
ChainFrom(u, k) ==
  IF k = 0 \/ FirstParentOf(u) = "" THEN {u} ELSE {u} \cup ChainFrom(FirstParentOf(u), k - 1)

HeadingLabels(md) ==
  LET headings == SelectSeq(md, LAMBDA line : line.kind = "heading")
  IN  [k \in 1..Len(headings) |-> headings[k].label[1]]

\* the lines of md after heading line j up to the next heading, empty lines left out
SectionOf(md, j) ==
  LET later == {k \in (j + 1)..Len(md) : md[k].kind = "heading"}
      end == IF later = {} THEN Len(md)
             ELSE (CHOOSE k \in later : \A m \in later : k <= m) - 1
  IN  SelectSeq(SubSeq(md, j + 1, end), LAMBDA line : line.kind # "empty")

\* C20: in 'full' mode the output holds, for every input, the eight status headings
\* in the order Focus, Active, Tracking, On Hold, Future, Someday, Completed,
\* Canceled Projects, and a heading under which no root falls shows the single entry
\* 'No matching projects' (a heading with roots shows bullets only).
EightStatusHeadings ==
  (walk.phase = "returned" /\ walk.args.groupByStatus = "full") =>
    /\ HeadingLabels(walk.md) =
         <<"Focus Projects", "Active Projects", "Tracking Projects", "On Hold Projects",
           "Future Projects", "Someday Projects", "Completed Projects", "Canceled Projects">>
    /\ \A j \in 1..Len(walk.md) :
         walk.md[j].kind = "heading" =>
           LET section == SectionOf(walk.md, j)
               fallen == {u \in Range(walk.roots) :
                            \E k \in 1..Len(projectStatuses) :
                              /\ projectStatuses[k].label = walk.md[j].label[1]
                              /\ RootsOfStatus(tags, <<u>>, projectStatuses[k].tag, rev) # <<>>}
           IN  IF fallen = {}
               THEN section = <<NoMatchingProjects>>
               ELSE \A k \in 1..Len(section) : section[k].kind = "note"

\* a 'full' list with projects under two headings and the entry under the other six
EightStatusHeadingsWitness ==
  /\ walk.phase = "returned"
  /\ walk.args.groupByStatus = "full"
  /\ Cardinality({j \in 1..Len(walk.md) : walk.md[j].kind = "none"}) = 6
  /\ Cardinality({j \in 1..Len(walk.md) : walk.md[j].kind = "note"}) >= 2

\* a 'full' list of an input without any note
EmptyListRendered ==
  /\ walk.phase = "returned"
  /\ walk.args.groupByStatus = "full"
  /\ walk.baseNotes = <<>>
  /\ Cardinality({j \in 1..Len(walk.md) : walk.md[j].kind = "none"}) = 8



\* C14: when fragments go through uniquifyFootnotes one after another, each call
\* starting from the nextCounter the call before returned, no label of one
\* fragment is rewritten to the label of another fragment, all occurrences of one
\* label inside a fragment (references and definition) are rewritten to the same
\* fnN and different labels to different ones, and nextCounter never decreases.
FootnotesNeverCollide ==
  \A f, g \in 1..Len(pass.done) :
    LET a == pass.done[f]
        b == pass.done[g]
    IN  /\ a.nextCounter >= a.counterStart
        /\ g = f + 1 => b.counterStart = a.nextCounter
        /\ \A i \in 1..Len(a.content) : \A j \in 1..Len(b.content) :
             (a.updatedContent[i].label = b.updatedContent[j].label)
               <=> (f = g /\ a.content[i].label = b.content[j].label)

\* the fnN labels written into the s-th section of the pass
LabelsOfSection(s) ==
  {pass.sections[s][f].updatedContent[k].label :
     <<f, k>> \in {<<f, k>> \in (1..MaxFragments) \X (1..MaxTokens) :
                     f <= Len(pass.sections[s])
                       /\ k <= Len(pass.sections[s][f].updatedContent)}}

\* C15: within one pass over a note one increasing footnote counter is shared by
\* all section updates, so no fnN label is produced twice among the sections
\* written into the note during the pass.
NoLabelTwiceInPass ==
  \A s, t \in 1..Len(pass.sections) :
    s # t => LabelsOfSection(s) \cap LabelsOfSection(t) = {}

\* the type the priorities give to a note with the tag set S that holds a list/*
\* and a project/* tag, or a project/* and a reference/* tag: is `type` that type?
TypeByPriority(S, type) ==
  /\ ((\E t \in S : StartsWith(t, <<"list">>)) /\ (\E t \in S : StartsWith(t, <<"project">>)))
       => (type \in S /\ StartsWith(type, <<"list">>))
  /\ ((\A t \in S : ~StartsWith(t, <<"list">>)) /\ (\E t \in S : StartsWith(t, <<"project">>))
        /\ (\E t \in S : StartsWith(t, <<"reference">>)))
       => type = <<"project">>

\* C16: getNoteType depends on the set of tags only: for a note with a list/* and
\* a project/* tag it returns the list/* tag, for a note with a project/* and a
\* reference/* tag 'project', whatever the order in which the host lists the tags
\* (seen on the types setParentChildRelationship computes for its two notes).
TypeIgnoresTagOrder ==
  last.op = "setParentChildRelationship" =>
    /\ TypeByPriority(tags[last.a], last.ta)
    /\ TypeByPriority(tags[last.b], last.tb)

\* C17: an operation that needs a note type is rejected when getNoteType returns
\* null: setParentChildRelationship between two notes without type tag adds no
\* tag, and addRelationshipByType with an untyped note ends with an error (an alert
\* or an exception) and adds no tag.
NullTypesRejected ==
  [][ /\ (/\ last'.op = "setParentChildRelationship"
          /\ steps' = steps + 1
          /\ last'.ta = Null /\ last'.tb = Null)
         => tags' = tags
      /\ (/\ last'.op = "addRelationshipByType"
          /\ steps' = steps + 1
          /\ (last'.ta = Null \/ last'.tb = Null))
         => (tags' = tags /\ last'.out \in {"alert", "throw"}) ]_vars

\* C18: once a note holds a note-id tag, no operation removes or replaces it: every
\* note-id tag a note holds it still holds after every step.
NoteIdNeverRemoved ==
  [][\A n \in DOMAIN tags : \A t \in tags[n] : IsNoteIdTag(t) => t \in tags'[n]]_vars

\* the bullets directly beneath bullet j: one indent deeper, with j the nearest
\* line above them of j's indent, in the order of the lines
BulletsBeneath(md, j) ==
  LET lines == SelectSeq([k \in 1..Len(md) |-> k],
                         LAMBDA k : /\ k > j
                                    /\ md[k].kind = "note"
                                    /\ md[k].indent = md[j].indent + 1
                                    /\ j \in PathAbove(md, k))
  IN  [i \in 1..Len(lines) |-> md[lines[i]].uuid]

\* the children of the note of bullet j as the store has them: the notes tagged
\* r/parent/<its id>, by name, without the notes on the path down to j
ChildrenOffPath(md, j) ==
  LET n == NotesFind(tags, md[j].uuid, rev)
      onPath == {md[i].uuid : i \in PathAbove(md, j) \cup {j}}
      children == Sort(getFilteredNotes(tags, <<"r", "parent", getNoteId(n)>>, <<>>, rev),
                       ByName(tags))
  IN  SelectSeq(children, LAMBDA c : c \notin onPath)

\* C21: for every rendered note with a note-id, its children (the notes tagged
\* r/parent/<that id>; a child that is already on the path is left out, as the
\* cycle rule says) are rendered directly after it, in alphabetical order of
\* title, each exactly one indent level deeper than the parent bullet.
ChildrenRenderedBeneath ==
  (walk.phase = "returned" /\ walk.args.includeChildren) =>
    \A j \in 1..Len(walk.md) :
      (walk.md[j].kind = "note" /\ getNoteId(NotesFind(tags, walk.md[j].uuid, rev)) # "")
        => BulletsBeneath(walk.md, j) = ChildrenOffPath(walk.md, j)

\* C22: a section update whose heading is absent from the note performs no write:
\* it returns {updated: false, count: 0} without calling replaceNoteContent and
\* without adding any tag (no note-id is minted for the note).
AbsentHeadingNoWrite ==
  [][(last'.op = "updateRelatedProjectsSection" /\ ~last'.heading) =>
       /\ tags' = tags
       /\ last'.out = "skipped"
       /\ ~last'.replaced
       /\ ~last'.minted]_vars

\* the update ran on a note without the heading that has no note-id, while
\* another note has been given one
AbsentHeadingNoWriteWitness ==
  /\ last.op = "updateRelatedProjectsSection"
  /\ ~last.heading
  /\ NoteIdTags(tags, last.a) = {}
  /\ \E n \in DOMAIN tags : NoteIdTags(tags, n) # {}

\* C23: in setParentChildRelationship both tag writes are attempted, and if the
\* host reports failure for the r/parent or the r/child write, the failure is
\* reported instead of the operation completing as a success.
TagWriteFailureReported ==
  (last.op = "setParentChildRelationship" /\ ~last.hostOk) => last.out # "ok"

\* the r/* tags of a note
RTagsOf(S) == {t \in S : StartsWith(t, <<"r">>)}

\* C24: when the host refuses the note-id tag write, getNoteIdTag fails with an
\* error, and the enclosing setParentChildRelationship or addRelationshipByType
\* adds no r/* tag to either note (a step in which a note-id write was attempted
\* and one of the two notes is left without note-id ends in the error, with the
\* r/* tags of every note as before).
IdWriteFailureAborts ==
  [][(/\ last'.op \in {"setParentChildRelationship", "addRelationshipByType"}
      /\ steps' = steps + 1
      /\ last'.minted
      /\ \E n \in {last'.a, last'.b} : NoteIdTags(tags', n) = {})
       => (/\ last'.out = "throw"
           /\ ~last'.hostOk
           /\ \A n \in DOMAIN tags : RTagsOf(tags'[n]) = RTagsOf(tags[n]))]_vars

\* the write of the first note-id went through, the host refused the second, and
\* the relationship ended in the error with no r/* tag on any note
IdWriteFailureAbortsWitness ==
  /\ last.op \in {"setParentChildRelationship", "addRelationshipByType"}
  /\ last.out = "throw"
  /\ ~last.hostOk
  /\ NoteIdTags(tags, last.a) # {}
  /\ NoteIdTags(tags, last.b) = {}
  /\ \A n \in DOMAIN tags : RTagsOf(tags[n]) = {}

\* ------------------------------------------------------------------ setNoteTags
\* The dialog is followed with the host applying every tag mutation and without a
\* 'System Categories' note (getCategoryDataFromSystemNote returns null, so no
\* category input is shown).
MaxPrompts == 2

AllOk == [i \in 1..4 |-> TRUE]

\* the values of the 'Project Status' select; '' is <<>>
projectStatusOptions ==
  {<<>>, <<"project", "focus">>, <<"project", "active">>, <<"project", "tracking">>,
   <<"project", "on-hold">>, <<"project", "future">>, <<"project", "someday">>,
   <<"project", "completed">>, <<"project", "canceled">>}

\* the statuses the dialog is answered with
StatusChoices ==
  {<<>>, <<"project", "focus">>, <<"project", "active">>, <<"project", "completed">>}

\* the switch of Step 0: the type tag of the note type chosen ('' when none is)
typeTag(noteType) ==
  CASE noteType = "project" -> <<"project", "active">>
    [] noteType = "people" -> <<"reference", "people", "uncategorized">>
    [] noteType = "software" -> <<"reference", "software", "uncategorized">>
    [] noteType = "horizon" -> <<"reference", "horizon", "uncategorized">>
    [] noteType = "reference" -> <<"reference", "uncategorized">>
    [] OTHER -> <<>>

\* the answers to the setup prompt: null, or [domainTag, noteType]
SetupResults ==
  {[null |-> TRUE, domainTag |-> <<>>, noteType |-> ""]}
  \cup [null : {FALSE}, domainTag : {<<>>, <<"d", "work">>},
        noteType : {"", "project", "people"}]

\* Step 0 after the prompt: the domain tag and the type tag are added
setupTags(store, uuid, setupResult) ==
  LET s1 == IF setupResult.domainTag # <<>>
              THEN AddTag(store, uuid, setupResult.domainTag, TRUE) ELSE store
  IN  IF typeTag(setupResult.noteType) # <<>>
        THEN AddTag(s1, uuid, typeTag(setupResult.noteType), TRUE) ELSE s1

isProjectNote(h) == \E i \in 1..Len(h.tags) : StartsWith(h.tags[i], <<"project">>)
isPeopleNote(h) == \E i \in 1..Len(h.tags) : StartsWith(h.tags[i], <<"reference", "people">>)
isSoftwareNote(h) ==
  \E i \in 1..Len(h.tags) : StartsWith(h.tags[i], <<"reference", "software">>)
isHorizonNote(h) ==
  \E i \in 1..Len(h.tags) : StartsWith(h.tags[i], <<"reference", "horizon">>)

\* the tag a chosen status is stored as; datestamp is YYYYMM of `new Date()`
statusTag(projectStatusValue, datestamp) ==
  IF projectStatusValue = <<"project", "completed">>
    THEN <<"project", "completed", datestamp>>
  ELSE projectStatusValue

\* variant: the old status tag is left on the note
projectStatusKeepOld(store, h, projectStatusValue, datestamp) ==
  AddTag(store, h.uuid, statusTag(projectStatusValue, datestamp), TRUE)

\* "Project status" of "Apply changes": the first project/* tag of the handle is
\* removed and the chosen status is added
projectStatus(store, h, projectStatusValue, datestamp) ==
  LET oldStatus == Find(SelectSeq(h.tags, LAMBDA t : StartsWith(t, <<"project">>)))
      s1 == IF oldStatus # Undefined THEN RemoveTag(store, h.uuid, oldStatus, TRUE) ELSE store
  IN  AddTag(s1, h.uuid, statusTag(projectStatusValue, datestamp), TRUE)

\* the answers to the main prompt: null, or the values of its inputs and the action
\* pressed; parent and add are note uuids ('' when no note was picked), remove the
\* position of the relation picked among currentRelations (0 when none was)
MainResults ==
  {[null |-> TRUE, status |-> <<>>, parent |-> "", add |-> "", remove |-> 0, continue |-> FALSE]}
  \cup [null : {FALSE}, status : StatusChoices, parent : {""} \cup DOMAIN tags,
        add : {""} \cup DOMAIN tags, remove : 0..Len(relations), continue : BOOLEAN]

\* no parent picked, no relationship picked: the call is skipped
Skipped(store) == Result(store, "ok", Null, Null, TRUE, FALSE)

\* setNoteTags from the refetch of the note up to the main prompt
\* [tags, note, relations, out]
toMainPrompt(store, uuid, r) ==
  LET h == NotesFind(store, uuid, r)
      g == getReadableRelationships(store, h, r, TRUE)
  IN  [tags |-> g.tags, note |-> h, relations |-> g.relations, out |-> g.out]

\* the dialog with the main prompt open (or ended by an exception before it)
AtMainPrompt(m, uuid, chosen, month, changes) ==
  [phase |-> IF m.out = "throw" THEN "done" ELSE "main", uuid |-> uuid,
   prompts |-> IF m.out = "throw" THEN dialog.prompts ELSE dialog.prompts + 1,
   cancelled |-> FALSE, chosen |-> chosen, month |-> month, changes |-> changes]

\* plugin.setNoteTags(app, noteUUID) up to its first prompt
SetNoteTags(n) ==
  /\ dialog.phase = "idle"
  /\ IF tags[n] = {}
       THEN /\ note' = NotesFind(tags, n, rev)
            /\ dialog' = [phase |-> "setup", uuid |-> n, prompts |-> dialog.prompts + 1,
                          cancelled |-> FALSE, chosen |-> <<>>, month |-> "",
                          changes |-> 0]
            /\ UNCHANGED <<tags, relations>>
     ELSE LET m == toMainPrompt(tags, n, rev)
          IN  /\ tags' = m.tags
              /\ note' = m.note
              /\ relations' = m.relations
              /\ dialog' = AtMainPrompt(m, n, <<>>, "", 0)
  /\ last' = Op("setNoteTags", n, "", <<>>, Undefined, FALSE, NoResult)
  /\ UNCHANGED <<rev, budget, steps, query, walk, pass, calls>>

\* variant: a null answer to the setup prompt is read as "nothing chosen"
SetupPromptAnswerNoNullCheck(setupResult) ==
  /\ dialog.phase = "setup"
  /\ LET m == toMainPrompt(setupTags(tags, dialog.uuid, setupResult), dialog.uuid, rev)
     IN  /\ tags' = m.tags
         /\ note' = m.note
         /\ relations' = m.relations
         /\ dialog' = [AtMainPrompt(m, dialog.uuid, <<>>, "", 0)
                         EXCEPT !.cancelled = setupResult.null]
  /\ last' = Op("setNoteTags", dialog.uuid, "", <<>>, Undefined, FALSE, NoResult)
  /\ UNCHANGED <<rev, budget, steps, query, walk, pass, calls>>

\* the setup prompt is answered: `if (!setupResult) return;`, else Step 0 and on to
\* the main prompt
SetupPromptAnswer(setupResult) ==
  /\ dialog.phase = "setup"
  /\ IF setupResult.null
       THEN /\ dialog' = [dialog EXCEPT !.phase = "aborted", !.cancelled = TRUE]
            /\ UNCHANGED <<tags, note, relations>>
     ELSE LET m == toMainPrompt(setupTags(tags, dialog.uuid, setupResult), dialog.uuid, rev)
          IN  /\ tags' = m.tags
              /\ note' = m.note
              /\ relations' = m.relations
              /\ dialog' = AtMainPrompt(m, dialog.uuid, <<>>, "", 0)
  /\ last' = Op("setNoteTags", dialog.uuid, "", <<>>, Undefined, FALSE, NoResult)
  /\ UNCHANGED <<rev, budget, steps, query, walk, pass, calls>>

\* the main prompt is answered: `if (!result) return;`, else "Apply changes" (project
\* status, parent, add relationship, remove relationship; an exception of a
\* relationship call ends the handler) and, when 'Continue' was pressed, setNoteTags
\* calls itself
MainPromptAnswer(result, datestamp) ==
  /\ dialog.phase = "main"
  /\ IF result.null
       THEN /\ dialog' = [dialog EXCEPT !.phase = "aborted", !.cancelled = TRUE]
            /\ UNCHANGED <<tags, note, relations>>
     ELSE LET status == isProjectNote(note) /\ result.status # <<>>
              parent == /\ \/ isProjectNote(note)
                           \/ isPeopleNote(note) \/ isSoftwareNote(note) \/ isHorizonNote(note)
                        /\ result.parent # ""
              chosen == IF status THEN result.status ELSE dialog.chosen
              changes == IF status THEN dialog.changes + 1 ELSE dialog.changes
              month == IF ~status THEN dialog.month
                       ELSE IF result.status = <<"project", "completed">> THEN datestamp
                       ELSE ""
          IN  \E s1 \in {IF status THEN projectStatus(tags, note, result.status, datestamp)
                          ELSE tags} :
              \E g2 \in {IF parent
                            THEN setParentChildRelationship(s1, dialog.uuid, result.parent,
                                                            rev, AllOk)
                          ELSE Skipped(s1)} :
              \E g3 \in {IF g2.out # "throw" /\ result.add # ""
                            THEN addRelationshipByType(g2.tags, note, result.add, rev, AllOk)
                          ELSE Skipped(g2.tags)} :
              \E g4 \in {IF g2.out # "throw" /\ g3.out # "throw"
                               /\ result.remove \in 1..Len(relations)
                            THEN removeRelationship(g3.tags, note, relations[result.remove],
                                                    rev, AllOk)
                          ELSE Skipped(g3.tags)} :
                LET thrown == "throw" \in {g2.out, g3.out, g4.out}
                IN  IF result.continue /\ ~thrown
                      THEN /\ dialog.prompts < MaxPrompts
                           /\ \E m \in {toMainPrompt(g4.tags, dialog.uuid, rev)} :
                                /\ tags' = m.tags
                                /\ note' = m.note
                                /\ relations' = m.relations
                                /\ dialog' = AtMainPrompt(m, dialog.uuid, chosen, month, changes)
                    ELSE /\ tags' = g4.tags
                         /\ dialog' = [dialog EXCEPT !.phase = "done", !.chosen = chosen,
                                                     !.month = month, !.changes = changes]
                         /\ UNCHANGED <<note, relations>>
  /\ last' = Op("setNoteTags", dialog.uuid, "", <<>>, Undefined, FALSE, NoResult)
  /\ UNCHANGED <<rev, budget, steps, query, walk, pass, calls>>

NextDialog ==
  \/ \E n \in DOMAIN tags : SetNoteTags(n)
  \/ \E setupResult \in SetupResults : SetupPromptAnswer(setupResult)
  \/ \E result \in MainResults : \E datestamp \in YearMonths :
       MainPromptAnswer(result, datestamp)

InitDialog ==
  InitWith({[n1 |-> Project, n2 |-> Project], [n1 |-> Untyped, n2 |-> People]}, 0)

SpecDialog == InitDialog /\ [][NextDialog]_vars

\* C25: when a prompt of setNoteTags returns null the handler returns at once: the
\* step that takes the null answer, and every step after it, adds or removes no tag,
\* changes no relationship and opens no further prompt.
CancelAborts ==
  [][dialog'.cancelled =>
       /\ tags' = tags
       /\ relations' = relations
       /\ dialog'.prompts = dialog.prompts
       /\ dialog'.phase = "aborted"]_vars

\* the main prompt was cancelled after an earlier prompt of the same dialog was answered
CancelAbortsWitness ==
  dialog.cancelled /\ dialog.phase = "aborted" /\ dialog.prompts >= 2

\* C29: a note with exactly one project/* tag keeps exactly one through every step
\* of the dialog, and after a status was chosen the project/* tag of the note is
\* that status, 'completed' stored as project/completed/<YYYYMM>.
OneProjectStatus ==
  /\ [][\A n \in DOMAIN tags :
          Cardinality({t \in tags[n] : IsProjectTag(t)}) = 1
            => Cardinality({t \in tags'[n] : IsProjectTag(t)}) = 1]_vars
  /\ [](dialog.chosen # <<>>
          => {t \in tags[dialog.uuid] : IsProjectTag(t)}
               = {statusTag(dialog.chosen, dialog.month)})

\* two status changes in a row, the last one to 'completed'
OneProjectStatusWitness ==
  /\ dialog.changes >= 2
  /\ dialog.chosen = <<"project", "completed">>
  /\ <<"project", "completed", dialog.month>> \in tags[dialog.uuid]

\* ------------------------------------------------- lists over notes of two types
\* formatLabel of buildNestedReferenceList: the link to the note only
PlainLabel(line) == IF line.kind = "note" THEN [line EXCEPT !.label = <<line.uuid>>] ELSE line

\* buildNestedReferenceList: the notes of the type that hold no r/parent tag, by
\* name, rendered by buildNestedNoteList
buildNestedReferenceList(store, baseNotes, noteType, includeChildren, r) ==
  LET filtered ==
        SelectSeq(baseNotes, LAMBDA u : getNoteType(NotesFind(store, u, r)) = <<noteType>>)
      topLevel ==
        Sort(SelectSeq(filtered, LAMBDA u : ~hasParentTag(NotesFind(store, u, r))),
             ByName(store))
      md == buildNestedNoteList(store, topLevel, 1, 0, DefaultVisited, includeChildren, r)
  IN  Trim([k \in 1..Len(md) |-> PlainLabel(md[k])])

\* updateBracketedSections for list/people, list/software, list/horizon and the
\* [uncategorized] section: the notes of the base tag that are of the type, rendered
\* with their children
BuildNestedReferenceList(noteType) ==
  /\ walk.phase \in {"idle", "returned"}
  /\ LET baseTag == <<"reference", noteType, "uncategorized">>
         matchingNotes ==
           SelectSeq(getFilteredNotes(tags, baseTag, <<>>, rev),
                     LAMBDA u : getNoteType(NotesFind(tags, u, rev)) = <<noteType>>)
         args == [baseTag |-> baseTag, groupByStatus |-> "reference",
                  includeChildren |-> TRUE, sortCompletedByDate |-> FALSE,
                  ignoreParentFiltering |-> FALSE]
         prev == IF walk.phase = "returned" /\ walk.args = args
                 THEN [args |-> walk.args, md |-> walk.md]
                 ELSE NoCall
     IN  walk' = [phase |-> "returned", args |-> args, baseNotes |-> matchingNotes,
                  roots |-> <<>>, i |-> 0, current |-> "", beat |-> FALSE,
                  md |-> buildNestedReferenceList(tags, matchingNotes, noteType, TRUE, rev),
                  prev |-> prev]
  /\ UNCHANGED <<tags, rev, note, relations, last, budget, steps, query, pass, dialog, calls>>

\* notes of two types: n1 is a project, n3 a person, n2 one or the other; each
\* holds a note-id and no r/parent tag or one naming another note
TypedTags ==
  [n1 |-> {{<<"project", "active">>}},
   n2 |-> {{<<"project", "completed", "202401">>}, People},
   n3 |-> {People}]
TypedStores ==
  {[n \in RenderNotes |->
      {<<"note-id", RenderIds[n]>>} \cup t[n]
        \cup (IF p[n] = "" THEN {} ELSE {<<"r", "parent", p[n]>>})] :
     t \in {f \in [RenderNotes -> UNION {TypedTags[n] : n \in RenderNotes}] :
              \A n \in RenderNotes : f[n] \in TypedTags[n]},
     p \in {f \in [RenderNotes -> {""} \cup {RenderIds[n] : n \in RenderNotes}] :
              \A n \in RenderNotes : f[n] # RenderIds[n]}}

NextRenderTyped ==
  \/ NextRender
  \/ \E noteType \in {"people", "software"} : BuildNestedReferenceList(noteType)

InitRenderTyped == InitWith(TypedStores, 0)

SpecRenderTyped == InitRenderTyped /\ [][NextRenderTyped]_vars

\* the bullet a bullet is nested under: the nearest bullet above it that is one
\* indent less deep (0 for a bullet that hangs under no bullet)
ParentBullet(md, j) ==
  LET above == {i \in PathAbove(md, j) :
                  md[i].kind = "note" /\ md[i].indent + 1 = md[j].indent}
  IN  IF above = {} THEN 0 ELSE CHOOSE i \in above : TRUE

\* C26: every bullet nested under a note by the renderer is a note of the same
\* type as that note.
ChildrenShareType ==
  walk.phase = "returned" =>
    \A j \in 1..Len(walk.md) :
      (walk.md[j].kind = "note" /\ ParentBullet(walk.md, j) # 0) =>
        getNoteType(NotesFind(tags, walk.md[j].uuid, rev))
          = getNoteType(NotesFind(tags, walk.md[ParentBullet(walk.md, j)].uuid, rev))

\* C27: a note is skipped only when it is on the current path: every note tagged
\* r/parent/<id> of a rendered note that is not on the path down to that note has a
\* bullet directly beneath it, whether or not it was rendered before as a sibling.
SkippedOnlyOnPath ==
  (walk.phase = "returned" /\ walk.args.includeChildren) =>
    \A j \in 1..Len(walk.md) :
      (walk.md[j].kind = "note" /\ getNoteId(NotesFind(tags, walk.md[j].uuid, rev)) # "")
        => Range(ChildrenOffPath(walk.md, j)) \subseteq Range(BulletsBeneath(walk.md, j))

\* ------------------------------------- buildNestedProjectList of src/gtdv3.js:1524
\* the value of a one-element set (used to name a value that is computed once)
The(S) == CHOOSE x \in S : TRUE

\* a bullet of the older list: '- [name](url)' and an empty line
PlainBullet(indentLevel, uuid) ==
  <<[kind |-> "note", indent |-> indentLevel, uuid |-> uuid, label |-> <<uuid>>], EmptyLine>>

\* the loops `for (... of children)`, `for (... of sorted)` and
\* `for (... of grouped[status.tag])` from the k-th entry on, and getChildMarkdown:
\* [tags, md, displayed].  displayed is the one Set of the whole call.
RECURSIVE getChildMarkdown(_, _, _, _, _)
RECURSIVE DisplayLoop(_, _, _, _, _, _, _)
DisplayLoop(store, uuids, k, indentLevel, displayed, includeChildren, r) ==
  IF k > Len(uuids) THEN [tags |-> store, md |-> <<>>, displayed |-> displayed]
  ELSE IF uuids[k] \in displayed
    THEN DisplayLoop(store, uuids, k + 1, indentLevel, displayed, includeChildren, r)
  ELSE The({The({[tags |-> rest.tags,
                   md |-> PlainBullet(indentLevel, uuids[k]) \o sub.md \o rest.md,
                   displayed |-> rest.displayed] :
                    rest \in {DisplayLoop(sub.tags, uuids, k + 1, indentLevel, sub.displayed,
                                          includeChildren, r)}}) :
             sub \in {IF includeChildren
                        THEN getChildMarkdown(store, uuids[k], indentLevel + 1,
                                              displayed \cup {uuids[k]}, r)
                      ELSE [tags |-> store, md |-> <<>>,
                            displayed |-> displayed \cup {uuids[k]}]}})

\* getChildMarkdown(parentUUID, indentLevel): the parent's note-id is taken with
\* getNoteIdTag, which gives the note one when it has none
getChildMarkdown(store, parentUUID, indentLevel, displayed, r) ==
  The({LET related ==
             getFilteredNotes(g.tags, <<"r", "parent", Split(g.ret, 1)>>, <<>>, r)
           children ==
             Sort(SelectSeq(related, LAMBDA u : \E t \in g.tags[u] : IsProjectTag(t)),
                  ByName(g.tags))
       IN  DisplayLoop(g.tags, children, 1, indentLevel, displayed, TRUE, r) :
         g \in {getNoteIdTag(store, NotesFind(store, parentUUID, r), TRUE)}})

\* grouped[status.tag]: the base notes whose first project/* tag is the status tag
Grouped(store, baseNotes, tag, r) ==
  SelectSeq(baseNotes,
            LAMBDA u : Find(SelectSeq(NotesFind(store, u, r).tags, IsProjectTag)) = tag)

\* 'full': the loop over projectStatuses from the k-th status on; the groups are
\* filled from the handles of baseNotes before the loop starts
RECURSIVE StatusLoop(_, _, _, _, _, _, _)
StatusLoop(store, handles, baseNotes, k, displayed, includeChildren, r) ==
  IF k > Len(projectStatuses) THEN [tags |-> store, md |-> <<>>, displayed |-> displayed]
  ELSE LET status == projectStatuses[k]
           group == Sort(Grouped(handles, baseNotes, status.tag, r), ByName(handles))
       IN  The({The({[tags |-> rest.tags,
                      md |-> <<Heading(status.label), EmptyLine>>
                               \o (IF Len(group) > 0 THEN sec.md
                                   ELSE <<NoMatchingProjects, EmptyLine>>)
                               \o rest.md,
                      displayed |-> rest.displayed] :
                       rest \in {StatusLoop(sec.tags, handles, baseNotes, k + 1, sec.displayed,
                                            includeChildren, r)}}) :
                sec \in {DisplayLoop(store, group, 1, 1, displayed, includeChildren, r)}})

\* buildNestedProjectList of src/gtdv3.js:1524: [tags, md]
buildNestedProjectListGtdv3(store, baseNotes, groupByStatus, includeChildren, r) ==
  The({[tags |-> out.tags, md |-> Trim(out.md)] :
         out \in {IF groupByStatus = "full"
                    THEN StatusLoop(store, store, baseNotes, 1, {}, includeChildren, r)
                  ELSE DisplayLoop(store, Sort(baseNotes, ByName(store)), 1, 0, {},
                                   includeChildren, r)}})

\* plugin.buildNestedProjectList(app, {baseNotes, groupByStatus, includeChildren})
\* of src/gtdv3.js:1524 over the notes of a base tag
BuildNestedProjectListGtdv3(baseTag, groupByStatus, includeChildren) ==
  /\ walk.phase \in {"idle", "returned"}
  /\ \E g \in {buildNestedProjectListGtdv3(tags, getFilteredNotes(tags, baseTag, <<>>, rev),
                                           groupByStatus, includeChildren, rev)} :
       /\ tags' = g.tags
       /\ walk' = [phase |-> "returned",
                   args |-> [baseTag |-> baseTag, groupByStatus |-> groupByStatus,
                             includeChildren |-> includeChildren,
                             sortCompletedByDate |-> FALSE,
                             ignoreParentFiltering |-> FALSE],
                   baseNotes |-> getFilteredNotes(tags, baseTag, <<>>, rev),
                   roots |-> <<>>, i |-> 0, current |-> "", beat |-> FALSE,
                   md |-> g.md, prev |-> NoCall]
       /\ last' = Op("buildNestedProjectList", "", "", <<>>, Undefined, FALSE,
                     Result(g.tags, "ok", Null, Null, TRUE, g.tags # tags))
  /\ UNCHANGED <<rev, note, relations, budget, steps, query, pass, dialog, calls>>

\* projects with and without note-id; n2 and n3 may be children of a note that
\* holds an id
UnidentifiedStores ==
  {[n \in RenderNotes |->
      {IF n = "n2" THEN <<"project", "focus">> ELSE <<"project", "active">>}
        \cup (IF n \in c[1] THEN {<<"note-id", RenderIds[n]>>} ELSE {})
        \cup (IF c[2][n] = "" THEN {} ELSE {<<"r", "parent", RenderIds[c[2][n]]>>})] :
     c \in {d \in (SUBSET RenderNotes) \X [RenderNotes -> {"", "n1", "n2"}] :
              /\ d[2]["n1"] = "" /\ d[2]["n2"] # "n2"
              /\ \A n \in RenderNotes : d[2][n] # "" => d[2][n] \in d[1]}}

NextRenderAll ==
  \/ NextRenderTyped
  \/ \E baseTag \in {<<"project">>, <<"project", "focus">>} :
       \E groupByStatus \in {"flat", "full"} : \E includeChildren \in BOOLEAN :
         BuildNestedProjectListGtdv3(baseTag, groupByStatus, includeChildren)

InitRenderAll == InitWith(UnidentifiedStores, 0)

SpecRenderAll == InitRenderAll /\ [][NextRenderAll]_vars

\* C30: rendering is read-only on the tag store: no step of buildNestedProjectList,
\* buildNestedReferenceList or buildNestedNoteList adds or removes a tag on any
\* note, so the tag store after a render equals the tag store before it.
RenderReadOnly == [][tags' = tags]_vars

\* ------------------------------------------- getNoteIdTag invocations in flight
\* Two invocations run on the one JS thread; control passes from one to the other
\* at an await.  The awaited host calls of an invocation are app.findNote, each
\* app.filterNotes of the collision loop, and note.addTag.
\* getNoteIdTag up to the first filterNotes: the handle is read, the base id and
\* the first candidate are built
StartGetNoteIdTag(i, n) ==
  /\ calls[i].pc = "idle"
  /\ \A j \in DOMAIN calls : calls[j].uuid # n
  /\ LET h == NotesFind(tags, n, rev)
         existing == Find(SelectSeq(h.tags, IsNoteIdTag))
     IN  calls' = [calls EXCEPT ![i] =
                     IF existing # Undefined
                       THEN [pc |-> "done", uuid |-> n, baseId |-> BaseIdOf(n),
                             candidate |-> existing, counter |-> 1]
                     ELSE [pc |-> "query", uuid |-> n, baseId |-> BaseIdOf(n),
                           candidate |-> <<"note-id", BaseIdOf(n)>>, counter |-> 1]]
  /\ UNCHANGED <<tags, rev, note, relations, last, budget, steps, query, walk, pass, dialog>>

\* one evaluation of the while condition of generateUniqueNoteIdTag on the answer
\* of app.filterNotes({tag: candidate}): another holder gives the next candidate,
\* none ends the loop
FilterNotesStep(i) ==
  /\ calls[i].pc = "query"
  /\ LET c == calls[i]
         taken == \E n \in Range(FilterNotes(tags, {c.candidate}, {}, FALSE)) : n # c.uuid
     IN  calls' = [calls EXCEPT ![i] =
                     IF taken
                       THEN [c EXCEPT !.candidate =
                                        <<"note-id", c.baseId \o "-" \o ToString(c.counter)>>,
                                      !.counter = c.counter + 1]
                     ELSE [c EXCEPT !.pc = "write"]]
  /\ UNCHANGED <<tags, rev, note, relations, last, budget, steps, query, walk, pass, dialog>>

\* note.addTag(tag) of getNoteIdTag, the host accepting it, and the return
AddTagStep(i) ==
  /\ calls[i].pc = "write"
  /\ tags' = AddTag(tags, calls[i].uuid, calls[i].candidate, TRUE)
  /\ calls' = [calls EXCEPT ![i].pc = "done"]
  /\ UNCHANGED <<rev, note, relations, last, budget, steps, query, walk, pass, dialog>>

NextInterleaved ==
  \/ \E i \in DOMAIN calls : \E n \in DOMAIN tags : StartGetNoteIdTag(i, n)
  \/ \E i \in DOMAIN calls : FilterNotesStep(i)
  \/ \E i \in DOMAIN calls : AddTagStep(i)

InitInterleaved ==
  InitWith({[n1 |-> Project, n2 |-> Project, n3 |-> Project],
            [n1 |-> Project, n2 |-> People, n3 |-> People \cup {<<"note-id", BaseIdOf("n3")>>}]},
           0)

SpecInterleaved == InitInterleaved /\ [][NextInterleaved]_vars

\* C28: also when two getNoteIdTag invocations for two different notes of the same
\* second interleave at their awaited host calls, no two notes end up holding the
\* same note-id tag.
UniqueNoteIdsInterleaved ==
  \A a, b \in DOMAIN tags :
    a # b => NoteIdTags(tags, a) \cap NoteIdTags(tags, b) = {}

\* ------------------------------------------------------- all operations together
\* every operation, over the typed and untyped stores
Next ==
  \/ \E n \in DOMAIN tags : FindNote(n)
  \/ \E ok \in Ok : GetNoteIdTag(ok)
  \/ \E ok \in Ok : GetReadableRelationships(ok)
  \/ \E c, p \in DOMAIN tags : \E oks \in Oks : SetParentChildRelationship(c, p, oks)
  \/ \E m \in DOMAIN tags : \E oks \in Oks : AddRelationshipByType(m, oks)
  \/ \E i \in 1..Len(relations) : \E oks \in Oks : RemoveRelationship(i, oks)
  \/ \E n \in DOMAIN tags : \E present \in BOOLEAN : \E ok \in Ok :
       UpdateRelatedProjectsSection(n, present, ok)
  \/ \E baseTag \in BaseTags : \E domainTags \in DomainFilters :
       GetFilteredNotes(baseTag, domainTags)
  \/ NextRender
  \/ NextPass
  \/ \E n \in DOMAIN tags : ClearAllTags(n)
  \/ NextDialog
  \/ \E noteType \in {"people", "software"} : BuildNestedReferenceList(noteType)
  \/ \E baseTag \in RenderBaseTags : \E groupByStatus \in {"flat", "full"} :
       \E includeChildren \in BOOLEAN :
         BuildNestedProjectListGtdv3(baseTag, groupByStatus, includeChildren)
  \/ NextInterleaved

Spec == Init /\ [][Next]_vars

====
